---- MODULE Spec2Model ----
(***************************************************************************)
(* A model of the connection API of crypto/openssl/ssl/ssl_lib.c: the      *)
(* gating of read/peek/write/shutdown, handshake dispatch, the role        *)
(* setters, renegotiation bookkeeping and the classification of I/O        *)
(* results by SSL_get_error.  The version-specific method table, the       *)
(* transport (BIO) and the thread's error queue are collaborators outside  *)
(* ssl_lib.c; they are modelled by the set of outcomes they can produce.   *)
(***************************************************************************)
EXTENDS Integers, Sequences, FiniteSets, TLC

VARIABLES
    s,      \* the SSL object (one connection)
    errq,   \* the calling thread's error queue, oldest entry first
    rbio,   \* retry state of the read transport
    wbio,   \* retry state of the write transport
    op,     \* the last API call: its name, result, the method routines it
            \* invoked and the error it queued
    heap,   \* the Contexts and Connections of the process with their
            \* reference counts
    thr,    \* the threads that release references concurrently
    sess,   \* the sessions handed to the cache's hash and compare callbacks
    cache   \* a Context's session cache and the connection updating it

vars == <<s, errq, rbio, wbio, op, heap, thr, sess, cache>>

\* the part of the state the calls on a single connection never touch
objects == <<heap, thr, sess, cache>>

\* the value of a variable a specification does not use
Unused == "unused"

----------------------------------------------------------------------------
(* Bounds *)

\* capacity of the modelled error queue (the library's ring holds more)
MaxErr == 1

\* longest error queue SSL_get_error is tried on
MaxQueued == 2

----------------------------------------------------------------------------
(* Values of the SSL object's fields *)

\* s->state is a bit set: the flag bits CONNECT, ACCEPT and BEFORE, or-ed
\* with a sub-state that only the method table interprets.
SSL_ST_CONNECT == {"CONNECT"}
SSL_ST_ACCEPT == {"ACCEPT"}
SSL_ST_BEFORE == {"BEFORE"}
SSL_ST_INIT == SSL_ST_CONNECT \cup SSL_ST_ACCEPT
SSL_ST_OK == {"OK"}
SSL_ST_RENEGOTIATE == {"RENEGOTIATE"} \cup SSL_ST_INIT

SSL_in_init(a) == (a.state \cap SSL_ST_INIT) # {}
SSL_in_before(a) == (a.state \cap SSL_ST_BEFORE) # {}

\* s->shutdown is a bit set
SSL_SENT_SHUTDOWN == "SENT"
SSL_RECEIVED_SHUTDOWN == "RECEIVED"
ShutdownModes == SUBSET {SSL_SENT_SHUTDOWN, SSL_RECEIVED_SHUTDOWN}

\* s->rwstate
SSL_NOTHING == "NOTHING"
SSL_WRITING == "WRITING"
SSL_READING == "READING"
SSL_X509_LOOKUP == "X509_LOOKUP"
RWStates == {SSL_NOTHING, SSL_WRITING, SSL_READING, SSL_X509_LOOKUP}

\* s->handshake_func: unset, or the method's connect or accept routine
NoFunc == "none"
HandshakeFuncs == {NoFunc, "ssl_connect", "ssl_accept"}

\* s->version
SSL2_VERSION == "SSL2"
SSL3_VERSION == "SSL3"
TLS1_VERSION == "TLS1"
Versions == {SSL2_VERSION, SSL3_VERSION, TLS1_VERSION}

\* s->s3->warn_alert
NoAlert == "none"
SSL_AD_CLOSE_NOTIFY == "close_notify"
Alerts == {NoAlert, SSL_AD_CLOSE_NOTIFY, "other_warning"}

\* the results the API reports: negative, zero, positive
Results == {-1, 0, 1}

----------------------------------------------------------------------------
(* The error queue *)

ERR_LIB_SYS == "SYS"
ERR_LIB_SSL == "SSL"

\* ERR_peek_error() returns 0 when the queue is empty
NoError == [lib |-> "none", reason |-> "none"]

SSL_R_UNINITIALIZED == [lib |-> ERR_LIB_SSL, reason |-> "UNINITIALIZED"]
SSL_R_PROTOCOL_IS_SHUTDOWN == [lib |-> ERR_LIB_SSL, reason |-> "PROTOCOL_IS_SHUTDOWN"]
SSL_R_CONNECTION_TYPE_NOT_SET == [lib |-> ERR_LIB_SSL, reason |-> "CONNECTION_TYPE_NOT_SET"]
ERR_R_INTERNAL_ERROR == [lib |-> ERR_LIB_SSL, reason |-> "INTERNAL_ERROR"]

\* errors the method table and the transport queue on their own
MethodErrors == {[lib |-> ERR_LIB_SSL, reason |-> "method"],
                 [lib |-> ERR_LIB_SYS, reason |-> "syscall"]}

\* SSLerr(f, r): the queue is a ring; when it is full the oldest entry goes
SSLerr(q, e) ==
    IF e = NoError THEN q
    ELSE IF Len(q) >= MaxErr THEN Append(Tail(q), e)
    ELSE Append(q, e)

ERR_peek_error(q) == IF q = <<>> THEN NoError ELSE Head(q)

ERR_GET_LIB(l) == l.lib

----------------------------------------------------------------------------
(* The SSL object *)

SSLObjects ==
    [handshake_func : HandshakeFuncs,
     state : SUBSET {"CONNECT", "ACCEPT", "BEFORE", "OK", "RENEGOTIATE", "HS"},
     server : {0, 1},
     shutdown : ShutdownModes,
     rwstate : RWStates,
     new_session : {0, 1},
     hit : {0, 1},
     enc_read_ctx : BOOLEAN,
     enc_write_ctx : BOOLEAN,
     expand : BOOLEAN,
     compress : BOOLEAN,
     method : Versions,
     version : Versions,
     warn_alert : Alerts]

\* transport retry state: the retry flags and the reason of a special retry
BIO_RR_CONNECT == "CONNECT"
BIO_RR_ACCEPT == "ACCEPT"
BIO_RR_SSL_X509_LOOKUP == "SSL_X509_LOOKUP"
NoReason == "none"
RetryReasons == {BIO_RR_CONNECT, BIO_RR_ACCEPT, BIO_RR_SSL_X509_LOOKUP}

BIOs ==
    {b \in [flags : SUBSET {"READ", "WRITE", "IO_SPECIAL"},
            retry_reason : RetryReasons \cup {NoReason}] :
        ("IO_SPECIAL" \in b.flags) <=> (b.retry_reason # NoReason)}

IdleBIO == [flags |-> {}, retry_reason |-> NoReason]

BIO_should_read(b) == "READ" \in b.flags
BIO_should_write(b) == "WRITE" \in b.flags
BIO_should_io_special(b) == "IO_SPECIAL" \in b.flags
BIO_get_retry_reason(b) == b.retry_reason

\* The record of an API call: its name, its result, the method routines it
\* invoked in order (each with what it returned; a void routine with 0),
\* the error it queued, whether a handshake completed
\* inside it and, for SSL_do_handshake, s->state as the renegotiation check
\* left it.
NotHooked == {"n/a"}

CallH(name, ret, calls, err, done, hook) ==
    [name |-> name, ret |-> ret, calls |-> calls, err |-> err,
     hs_done |-> done, hook_state |-> hook]

Call(name, ret, calls, err, done) == CallH(name, ret, calls, err, done, NotHooked)

Invoked(f, ret) == [f |-> f, ret |-> ret]

----------------------------------------------------------------------------
(* The method table.  Each routine is given by the outcomes it can have: *)
(* the SSL object it leaves, its result, the error it queues (if any) and  *)
(* whether it completed a handshake.                                       *)

Outcome(a, ret, err, done) == [s |-> a, ret |-> ret, err |-> err, hs_done |-> done]

RoleBit(f) == IF f = "ssl_accept" THEN SSL_ST_ACCEPT ELSE SSL_ST_CONNECT

\* ssl_connect / ssl_accept: finish the handshake, block on the transport or
\* on a certificate lookup, or fail
Method_handshake(a, f) ==
    LET srv == IF f = "ssl_accept" THEN 1 ELSE 0
        mid == [a EXCEPT !.state = RoleBit(f) \cup {"HS"}, !.server = srv]
    IN  { Outcome([a EXCEPT !.state = SSL_ST_OK, !.server = srv,
                            !.handshake_func = f, !.new_session = 0,
                            !.rwstate = SSL_NOTHING,
                            !.enc_read_ctx = TRUE, !.enc_write_ctx = TRUE,
                            !.expand = c, !.compress = c],
                  1, NoError, TRUE) : c \in BOOLEAN }
        \cup
        { Outcome([mid EXCEPT !.rwstate = w], -1, NoError, FALSE) :
            w \in {SSL_READING, SSL_WRITING, SSL_X509_LOOKUP} }
        \cup
        { Outcome([mid EXCEPT !.rwstate = SSL_NOTHING], r, e, FALSE) :
            r \in {-1, 0}, e \in MethodErrors }

\* record I/O on an established connection
Method_io(a, w) ==
    LET idle == [a EXCEPT !.rwstate = SSL_NOTHING] IN
    { Outcome(idle, 1, NoError, FALSE) }
    \cup { Outcome([a EXCEPT !.rwstate = w], -1, NoError, FALSE) }
    \cup { Outcome(idle, -1, e, FALSE) : e \in MethodErrors }
    \cup { Outcome(idle, 0, NoError, FALSE) }

ReadIO(a) ==
    Method_io(a, SSL_READING)
    \cup { Outcome([a EXCEPT !.rwstate = SSL_NOTHING,
                             !.shutdown = @ \cup {SSL_RECEIVED_SHUTDOWN},
                             !.warn_alert = SSL_AD_CLOSE_NOTIFY],
                   0, NoError, FALSE) }

WriteIO(a) == Method_io(a, SSL_WRITING)

IOOutcomes(a, dir) == IF dir = "read" THEN ReadIO(a) ELSE WriteIO(a)

\* The read and write routines first drive a handshake that is still in
\* progress, through s->handshake_func.
Method_with_handshake(a, dir) ==
    IF SSL_in_init(a) /\ a.handshake_func # NoFunc
    THEN UNION { IF o.hs_done
                 THEN { [p EXCEPT !.hs_done = TRUE] : p \in IOOutcomes(o.s, dir) }
                 ELSE {o} : o \in Method_handshake(a, a.handshake_func) }
    ELSE IOOutcomes(a, dir)

Method_ssl_read(a) == Method_with_handshake(a, "read")
Method_ssl_peek(a) == Method_with_handshake(a, "read")
Method_ssl_write(a) == Method_with_handshake(a, "write")

\* ssl_shutdown: sends the close notification, then waits for the peer's
Method_ssl_shutdown(a) ==
    LET sent == [a EXCEPT !.shutdown = @ \cup {SSL_SENT_SHUTDOWN}]
        both == [sent EXCEPT !.shutdown = @ \cup {SSL_RECEIVED_SHUTDOWN},
                             !.warn_alert = SSL_AD_CLOSE_NOTIFY]
    IN  { Outcome(sent, IF SSL_RECEIVED_SHUTDOWN \in sent.shutdown THEN 1 ELSE 0,
                  NoError, FALSE),
          Outcome(both, 1, NoError, FALSE),
          Outcome([sent EXCEPT !.rwstate = SSL_WRITING], -1, NoError, FALSE) }

\* ssl_renegotiate_check: starts the requested renegotiation once the
\* connection is idle
Method_ssl_renegotiate_check(a) ==
    {a} \cup (IF SSL_in_init(a) THEN {}
              ELSE {[a EXCEPT !.state = SSL_ST_RENEGOTIATE]})

\* ssl_renegotiate: notes the request and runs the check
Method_ssl_renegotiate(a) ==
    { Outcome(b, r, NoError, FALSE) :
        b \in Method_ssl_renegotiate_check(a), r \in {0, 1} }

Method_ssl_ctrl(a) == { Outcome(a, r, NoError, FALSE) : r \in {0, 1} }

\* ssl_clear: resets the version-specific state
Method_ssl_clear(a) == [a EXCEPT !.warn_alert = NoAlert]

----------------------------------------------------------------------------
(* The connection API of ssl_lib.c *)

\* a variant that forgets the compression contexts
ssl_clear_cipher_ctx_no_comp(a) ==
    [a EXCEPT !.enc_read_ctx = FALSE, !.enc_write_ctx = FALSE]

ssl_clear_cipher_ctx(a) ==
    [a EXCEPT !.enc_read_ctx = FALSE, !.enc_write_ctx = FALSE,
              !.expand = FALSE, !.compress = FALSE]

set_accept_state(a) ==
    ssl_clear_cipher_ctx([a EXCEPT !.server = 1, !.shutdown = {},
                                   !.state = SSL_ST_ACCEPT \cup SSL_ST_BEFORE,
                                   !.handshake_func = "ssl_accept"])

set_connect_state(a) ==
    ssl_clear_cipher_ctx([a EXCEPT !.server = 0, !.shutdown = {},
                                   !.state = SSL_ST_CONNECT \cup SSL_ST_BEFORE,
                                   !.handshake_func = "ssl_connect"])

SSL_set_accept_state ==
    /\ s' = set_accept_state(s)
    /\ op' = Call("SSL_set_accept_state", 1, <<>>, NoError, FALSE)
    /\ UNCHANGED <<errq, rbio, wbio, objects>>

SSL_set_connect_state ==
    /\ s' = set_connect_state(s)
    /\ op' = Call("SSL_set_connect_state", 1, <<>>, NoError, FALSE)
    /\ UNCHANGED <<errq, rbio, wbio, objects>>

\* the tail shared by the calls that hand over to a method routine
Delegate(name, routine, outcomes) ==
    \E o \in outcomes :
        /\ s' = o.s
        /\ errq' = SSLerr(errq, o.err)
        /\ op' = Call(name, o.ret, <<Invoked(routine, o.ret)>>, o.err, o.hs_done)

\* the tail shared by the calls that fail or return on their own
Return(name, a, ret, err) ==
    /\ s' = a
    /\ errq' = SSLerr(errq, err)
    /\ op' = Call(name, ret, <<>>, err, FALSE)

SSL_accept ==
    /\ LET a == IF s.handshake_func = NoFunc THEN set_accept_state(s) ELSE s
       IN  Delegate("SSL_accept", "ssl_accept", Method_handshake(a, "ssl_accept"))
    /\ UNCHANGED <<rbio, wbio, objects>>

SSL_connect ==
    /\ LET a == IF s.handshake_func = NoFunc THEN set_connect_state(s) ELSE s
       IN  Delegate("SSL_connect", "ssl_connect", Method_handshake(a, "ssl_connect"))
    /\ UNCHANGED <<rbio, wbio, objects>>

\* a variant that tests the wrong shutdown flag
SSL_read_sent_flag ==
    /\ IF s.handshake_func = NoFunc
       THEN Return("SSL_read", s, -1, SSL_R_UNINITIALIZED)
       ELSE IF SSL_SENT_SHUTDOWN \in s.shutdown
       THEN Return("SSL_read", [s EXCEPT !.rwstate = SSL_NOTHING], 0, NoError)
       ELSE Delegate("SSL_read", "ssl_read", Method_ssl_read(s))
    /\ UNCHANGED <<rbio, wbio, objects>>

SSL_read ==
    /\ IF s.handshake_func = NoFunc
       THEN Return("SSL_read", s, -1, SSL_R_UNINITIALIZED)
       ELSE IF SSL_RECEIVED_SHUTDOWN \in s.shutdown
       THEN Return("SSL_read", [s EXCEPT !.rwstate = SSL_NOTHING], 0, NoError)
       ELSE Delegate("SSL_read", "ssl_read", Method_ssl_read(s))
    /\ UNCHANGED <<rbio, wbio, objects>>

\* a variant without the entry-point gate
SSL_peek_ungated ==
    /\ IF SSL_RECEIVED_SHUTDOWN \in s.shutdown
       THEN Return("SSL_peek", s, 0, NoError)
       ELSE Delegate("SSL_peek", "ssl_peek", Method_ssl_peek(s))
    /\ UNCHANGED <<rbio, wbio, objects>>

SSL_peek ==
    /\ IF s.handshake_func = NoFunc
       THEN Return("SSL_peek", s, -1, SSL_R_UNINITIALIZED)
       ELSE IF SSL_RECEIVED_SHUTDOWN \in s.shutdown
       THEN Return("SSL_peek", s, 0, NoError)
       ELSE Delegate("SSL_peek", "ssl_peek", Method_ssl_peek(s))
    /\ UNCHANGED <<rbio, wbio, objects>>

\* a variant that leaves rwstate as it was
SSL_write_keeps_rwstate ==
    /\ IF s.handshake_func = NoFunc
       THEN Return("SSL_write", s, -1, SSL_R_UNINITIALIZED)
       ELSE IF SSL_SENT_SHUTDOWN \in s.shutdown
       THEN Return("SSL_write", s, -1, SSL_R_PROTOCOL_IS_SHUTDOWN)
       ELSE Delegate("SSL_write", "ssl_write", Method_ssl_write(s))
    /\ UNCHANGED <<rbio, wbio, objects>>

SSL_write ==
    /\ IF s.handshake_func = NoFunc
       THEN Return("SSL_write", s, -1, SSL_R_UNINITIALIZED)
       ELSE IF SSL_SENT_SHUTDOWN \in s.shutdown
       THEN Return("SSL_write", [s EXCEPT !.rwstate = SSL_NOTHING], -1,
                   SSL_R_PROTOCOL_IS_SHUTDOWN)
       ELSE Delegate("SSL_write", "ssl_write", Method_ssl_write(s))
    /\ UNCHANGED <<rbio, wbio, objects>>

\* a variant that delegates whatever the state is
SSL_shutdown_always ==
    /\ IF s.handshake_func = NoFunc
       THEN Return("SSL_shutdown", s, -1, SSL_R_UNINITIALIZED)
       ELSE Delegate("SSL_shutdown", "ssl_shutdown", Method_ssl_shutdown(s))
    /\ UNCHANGED <<rbio, wbio, objects>>

SSL_shutdown ==
    /\ IF s.handshake_func = NoFunc
       THEN Return("SSL_shutdown", s, -1, SSL_R_UNINITIALIZED)
       ELSE IF ~SSL_in_init(s)
       THEN Delegate("SSL_shutdown", "ssl_shutdown", Method_ssl_shutdown(s))
       ELSE Return("SSL_shutdown", s, 1, NoError)
    /\ UNCHANGED <<rbio, wbio, objects>>

SSL_renegotiate ==
    /\ LET a == IF s.new_session = 0 THEN [s EXCEPT !.new_session = 1] ELSE s
       IN  Delegate("SSL_renegotiate", "ssl_renegotiate", Method_ssl_renegotiate(a))
    /\ UNCHANGED <<rbio, wbio, objects>>

SSL_renegotiate_pending(a) == a.new_session # 0

\* SSL_ctrl answers the commands on read_ahead, msg_callback_arg, options,
\* mode and max_cert_list itself and passes every other command to the method
\* table.  Those fields are read by no operation below and are left out of
\* the SSL object, so the value a local command returns is any value.
LocalCtrls == {"SSL_CTRL_OPTIONS", "SSL_CTRL_MODE"}
MethodCtrls == {"SSL_CTRL_GET_SESSION_REUSED"}

SSL_ctrl(cmd) ==
    /\ IF cmd \in LocalCtrls
       THEN \E l \in {0, 1} : Return("SSL_ctrl", s, l, NoError)
       ELSE Delegate("SSL_ctrl", "ssl_ctrl", Method_ssl_ctrl(s))
    /\ UNCHANGED <<rbio, wbio, objects>>

\* a variant that also drops the pending renegotiation
SSL_clear_drops_pending ==
    /\ LET a == [s EXCEPT !.hit = 0, !.shutdown = {}, !.new_session = 0] IN
         /\ s' = Method_ssl_clear(ssl_clear_cipher_ctx(
                      [a EXCEPT !.state = SSL_ST_BEFORE \cup
                                    (IF a.server # 0 THEN SSL_ST_ACCEPT
                                                     ELSE SSL_ST_CONNECT),
                                !.version = a.method,
                                !.rwstate = SSL_NOTHING]))
         /\ op' = Call("SSL_clear", 1, <<Invoked("ssl_clear", 0)>>, NoError, FALSE)
         /\ errq' = errq
    /\ UNCHANGED <<rbio, wbio, objects>>

\* SSL_clear on a connection whose method is set and is the context's
\* method (SSL_new guarantees both; SSL_set_ssl_method is not modelled).
\* The session, error, type, rstate, init_buf and first_packet fields it also
\* resets are read by no operation below and are left out of the SSL object.
SSL_clear ==
    /\ LET a == [s EXCEPT !.hit = 0, !.shutdown = {}] IN
       IF a.new_session # 0
       THEN Return("SSL_clear", a, 0, ERR_R_INTERNAL_ERROR)
       ELSE /\ s' = Method_ssl_clear(ssl_clear_cipher_ctx(
                      [a EXCEPT !.state = SSL_ST_BEFORE \cup
                                    (IF a.server # 0 THEN SSL_ST_ACCEPT
                                                     ELSE SSL_ST_CONNECT),
                                !.version = a.method,
                                !.rwstate = SSL_NOTHING]))
            /\ op' = Call("SSL_clear", 1, <<Invoked("ssl_clear", 0)>>, NoError, FALSE)
            /\ errq' = errq
    /\ UNCHANGED <<rbio, wbio, objects>>

\* a variant that runs the renegotiation check before testing the entry point
SSL_do_handshake_hook_first ==
    /\ IF s.handshake_func = NoFunc
       THEN \E a \in Method_ssl_renegotiate_check(s) :
              /\ s' = a
              /\ errq' = SSLerr(errq, SSL_R_CONNECTION_TYPE_NOT_SET)
              /\ op' = CallH("SSL_do_handshake", -1,
                             <<Invoked("ssl_renegotiate_check", 0)>>,
                             SSL_R_CONNECTION_TYPE_NOT_SET, FALSE, a.state)
       ELSE \E a \in Method_ssl_renegotiate_check(s) :
              IF SSL_in_init(a) \/ SSL_in_before(a)
              THEN \E o \in Method_handshake(a, a.handshake_func) :
                      /\ s' = o.s
                      /\ errq' = SSLerr(errq, o.err)
                      /\ op' = CallH("SSL_do_handshake", o.ret,
                                     <<Invoked("ssl_renegotiate_check", 0),
                                       Invoked(a.handshake_func, o.ret)>>,
                                     o.err, o.hs_done, a.state)
              ELSE /\ s' = a
                   /\ errq' = errq
                   /\ op' = CallH("SSL_do_handshake", 1,
                                  <<Invoked("ssl_renegotiate_check", 0)>>,
                                  NoError, FALSE, a.state)
    /\ UNCHANGED <<rbio, wbio, objects>>

\* a variant that tests the state as it was before the renegotiation check
SSL_do_handshake_stale_state ==
    /\ IF s.handshake_func = NoFunc
       THEN Return("SSL_do_handshake", s, -1, SSL_R_CONNECTION_TYPE_NOT_SET)
       ELSE \E a \in Method_ssl_renegotiate_check(s) :
              IF SSL_in_init(s) \/ SSL_in_before(s)
              THEN \E o \in Method_handshake(a, a.handshake_func) :
                      /\ s' = o.s
                      /\ errq' = SSLerr(errq, o.err)
                      /\ op' = CallH("SSL_do_handshake", o.ret,
                                     <<Invoked("ssl_renegotiate_check", 0),
                                       Invoked(a.handshake_func, o.ret)>>,
                                     o.err, o.hs_done, a.state)
              ELSE /\ s' = a
                   /\ errq' = errq
                   /\ op' = CallH("SSL_do_handshake", 1,
                                  <<Invoked("ssl_renegotiate_check", 0)>>,
                                  NoError, FALSE, a.state)
    /\ UNCHANGED <<rbio, wbio, objects>>

SSL_do_handshake ==
    /\ IF s.handshake_func = NoFunc
       THEN Return("SSL_do_handshake", s, -1, SSL_R_CONNECTION_TYPE_NOT_SET)
       ELSE \E a \in Method_ssl_renegotiate_check(s) :
              IF SSL_in_init(a) \/ SSL_in_before(a)
              THEN \E o \in Method_handshake(a, a.handshake_func) :
                      /\ s' = o.s
                      /\ errq' = SSLerr(errq, o.err)
                      /\ op' = CallH("SSL_do_handshake", o.ret,
                                     <<Invoked("ssl_renegotiate_check", 0),
                                       Invoked(a.handshake_func, o.ret)>>,
                                     o.err, o.hs_done, a.state)
              ELSE /\ s' = a
                   /\ errq' = errq
                   /\ op' = CallH("SSL_do_handshake", 1,
                                  <<Invoked("ssl_renegotiate_check", 0)>>,
                                  NoError, FALSE, a.state)
    /\ UNCHANGED <<rbio, wbio, objects>>

SSL_set_shutdown(mode) ==
    /\ s' = [s EXCEPT !.shutdown = mode]
    /\ op' = Call("SSL_set_shutdown", 1, <<>>, NoError, FALSE)
    /\ UNCHANGED <<errq, rbio, wbio, objects>>

\* the application empties the error queue
ERR_clear_error ==
    /\ errq' = <<>>
    /\ op' = Call("ERR_clear_error", 1, <<>>, NoError, FALSE)
    /\ UNCHANGED <<s, rbio, wbio, objects>>

----------------------------------------------------------------------------
(* The connection as SSL_new returns it, and its life under the API *)

NoCall == Call("SSL_new", 1, <<>>, NoError, FALSE)

SSL_new(srv, ver) ==
    [handshake_func |-> NoFunc,
     state |-> SSL_ST_BEFORE \cup (IF srv # 0 THEN SSL_ST_ACCEPT ELSE SSL_ST_CONNECT),
     server |-> srv, shutdown |-> {}, rwstate |-> SSL_NOTHING,
     new_session |-> 0, hit |-> 0,
     enc_read_ctx |-> FALSE, enc_write_ctx |-> FALSE,
     expand |-> FALSE, compress |-> FALSE,
     method |-> ver, version |-> ver, warn_alert |-> NoAlert]

Init ==
    /\ \E srv \in {0, 1} : s = SSL_new(srv, TLS1_VERSION)
    /\ errq = <<>>
    /\ rbio = IdleBIO
    /\ wbio = IdleBIO
    /\ op = NoCall
    /\ heap = Unused /\ thr = Unused /\ sess = Unused /\ cache = Unused

Next ==
    \/ SSL_set_accept_state
    \/ SSL_set_connect_state
    \/ SSL_accept
    \/ SSL_connect
    \/ SSL_read
    \/ SSL_peek
    \/ SSL_write
    \/ SSL_shutdown
    \/ SSL_renegotiate
    \/ \E cmd \in LocalCtrls \cup MethodCtrls : SSL_ctrl(cmd)
    \/ SSL_clear
    \/ SSL_do_handshake
    \/ \E mode \in ShutdownModes : SSL_set_shutdown(mode)
    \/ ERR_clear_error

Spec == Init /\ [][Next]_vars

TypeOK ==
    /\ s \in SSLObjects
    /\ errq \in Seq(MethodErrors \cup {SSL_R_UNINITIALIZED, SSL_R_PROTOCOL_IS_SHUTDOWN,
                                       SSL_R_CONNECTION_TYPE_NOT_SET, ERR_R_INTERNAL_ERROR})
    /\ Len(errq) <= MaxErr
    /\ rbio \in BIOs
    /\ wbio \in BIOs

----------------------------------------------------------------------------
(* SSL_get_error: the classification of the result of an I/O call *)

SSL_ERROR_NONE == "SSL_ERROR_NONE"
SSL_ERROR_SSL == "SSL_ERROR_SSL"
SSL_ERROR_WANT_READ == "SSL_ERROR_WANT_READ"
SSL_ERROR_WANT_WRITE == "SSL_ERROR_WANT_WRITE"
SSL_ERROR_WANT_X509_LOOKUP == "SSL_ERROR_WANT_X509_LOOKUP"
SSL_ERROR_SYSCALL == "SSL_ERROR_SYSCALL"
SSL_ERROR_ZERO_RETURN == "SSL_ERROR_ZERO_RETURN"
SSL_ERROR_WANT_CONNECT == "SSL_ERROR_WANT_CONNECT"
SSL_ERROR_WANT_ACCEPT == "SSL_ERROR_WANT_ACCEPT"

SSL_want(a) == a.rwstate
SSL_want_read(a) == SSL_want(a) = SSL_READING
SSL_want_write(a) == SSL_want(a) = SSL_WRITING
SSL_want_x509_lookup(a) == SSL_want(a) = SSL_X509_LOOKUP

\* the outcome of interrogating a transport for its retry reason; Fallthrough
\* when it shows no retry flag and the classification goes on
Fallthrough == "fallthrough"

RetryOf(b, first, second) ==
    IF first = "READ" /\ BIO_should_read(b) THEN SSL_ERROR_WANT_READ
    ELSE IF first = "WRITE" /\ BIO_should_write(b) THEN SSL_ERROR_WANT_WRITE
    ELSE IF second = "READ" /\ BIO_should_read(b) THEN SSL_ERROR_WANT_READ
    ELSE IF second = "WRITE" /\ BIO_should_write(b) THEN SSL_ERROR_WANT_WRITE
    ELSE IF BIO_should_io_special(b)
         THEN IF BIO_get_retry_reason(b) = BIO_RR_CONNECT THEN SSL_ERROR_WANT_CONNECT
              ELSE IF BIO_get_retry_reason(b) = BIO_RR_ACCEPT THEN SSL_ERROR_WANT_ACCEPT
              ELSE SSL_ERROR_SYSCALL
    ELSE Fallthrough

\* a variant that takes any received shutdown for a clean close
ZeroOrSyscall_any_alert(a, i) ==
    IF i = 0 /\ a.version = SSL2_VERSION THEN SSL_ERROR_ZERO_RETURN
    ELSE IF i = 0 /\ SSL_RECEIVED_SHUTDOWN \in a.shutdown THEN SSL_ERROR_ZERO_RETURN
    ELSE SSL_ERROR_SYSCALL

ZeroOrSyscall(a, i) ==
    IF i = 0 /\ a.version = SSL2_VERSION THEN SSL_ERROR_ZERO_RETURN
    ELSE IF i = 0 /\ SSL_RECEIVED_SHUTDOWN \in a.shutdown
                  /\ a.warn_alert = SSL_AD_CLOSE_NOTIFY THEN SSL_ERROR_ZERO_RETURN
    ELSE SSL_ERROR_SYSCALL

\* a variant that takes a zero result for success
SSL_get_error_nonneg(a, q, rb, wb, i) ==
    LET l == ERR_peek_error(q)
        rd == IF i < 0 /\ SSL_want_read(a) THEN RetryOf(rb, "READ", "WRITE")
              ELSE Fallthrough
        wr == IF i < 0 /\ SSL_want_write(a) THEN RetryOf(wb, "WRITE", "READ")
              ELSE Fallthrough
    IN  IF i >= 0 THEN SSL_ERROR_NONE
        ELSE IF l # NoError
             THEN IF ERR_GET_LIB(l) = ERR_LIB_SYS THEN SSL_ERROR_SYSCALL
                  ELSE SSL_ERROR_SSL
        ELSE IF rd # Fallthrough THEN rd
        ELSE IF wr # Fallthrough THEN wr
        ELSE IF i < 0 /\ SSL_want_x509_lookup(a) THEN SSL_ERROR_WANT_X509_LOOKUP
        ELSE ZeroOrSyscall(a, i)

\* a variant that looks at the error queue only after the transports
SSL_get_error_queue_last(a, q, rb, wb, i) ==
    LET l == ERR_peek_error(q)
        rd == IF i < 0 /\ SSL_want_read(a) THEN RetryOf(rb, "READ", "WRITE")
              ELSE Fallthrough
        wr == IF i < 0 /\ SSL_want_write(a) THEN RetryOf(wb, "WRITE", "READ")
              ELSE Fallthrough
    IN  IF i > 0 THEN SSL_ERROR_NONE
        ELSE IF rd # Fallthrough THEN rd
        ELSE IF wr # Fallthrough THEN wr
        ELSE IF i < 0 /\ SSL_want_x509_lookup(a) THEN SSL_ERROR_WANT_X509_LOOKUP
        ELSE IF l # NoError
             THEN IF ERR_GET_LIB(l) = ERR_LIB_SYS THEN SSL_ERROR_SYSCALL
                  ELSE SSL_ERROR_SSL
        ELSE ZeroOrSyscall(a, i)

\* a variant that interrogates the read transport for a blocked write too
SSL_get_error_one_bio(a, q, rb, wb, i) ==
    LET l == ERR_peek_error(q)
        rd == IF i < 0 /\ SSL_want_read(a) THEN RetryOf(rb, "READ", "WRITE")
              ELSE Fallthrough
        wr == IF i < 0 /\ SSL_want_write(a) THEN RetryOf(rb, "WRITE", "READ")
              ELSE Fallthrough
    IN  IF i > 0 THEN SSL_ERROR_NONE
        ELSE IF l # NoError
             THEN IF ERR_GET_LIB(l) = ERR_LIB_SYS THEN SSL_ERROR_SYSCALL
                  ELSE SSL_ERROR_SSL
        ELSE IF rd # Fallthrough THEN rd
        ELSE IF wr # Fallthrough THEN wr
        ELSE IF i < 0 /\ SSL_want_x509_lookup(a) THEN SSL_ERROR_WANT_X509_LOOKUP
        ELSE ZeroOrSyscall(a, i)

\* a variant that interrogates the transports for a zero result too
SSL_get_error_want_on_zero(a, q, rb, wb, i) ==
    LET l == ERR_peek_error(q)
        rd == IF i <= 0 /\ SSL_want_read(a) THEN RetryOf(rb, "READ", "WRITE")
              ELSE Fallthrough
        wr == IF i <= 0 /\ SSL_want_write(a) THEN RetryOf(wb, "WRITE", "READ")
              ELSE Fallthrough
    IN  IF i > 0 THEN SSL_ERROR_NONE
        ELSE IF l # NoError
             THEN IF ERR_GET_LIB(l) = ERR_LIB_SYS THEN SSL_ERROR_SYSCALL
                  ELSE SSL_ERROR_SSL
        ELSE IF rd # Fallthrough THEN rd
        ELSE IF wr # Fallthrough THEN wr
        ELSE IF i <= 0 /\ SSL_want_x509_lookup(a) THEN SSL_ERROR_WANT_X509_LOOKUP
        ELSE ZeroOrSyscall(a, i)

SSL_get_error(a, q, rb, wb, i) ==
    LET l == ERR_peek_error(q)
        rd == IF i < 0 /\ SSL_want_read(a) THEN RetryOf(rb, "READ", "WRITE")
              ELSE Fallthrough
        wr == IF i < 0 /\ SSL_want_write(a) THEN RetryOf(wb, "WRITE", "READ")
              ELSE Fallthrough
    IN  IF i > 0 THEN SSL_ERROR_NONE
        ELSE IF l # NoError
             THEN IF ERR_GET_LIB(l) = ERR_LIB_SYS THEN SSL_ERROR_SYSCALL
                  ELSE SSL_ERROR_SSL
        ELSE IF rd # Fallthrough THEN rd
        ELSE IF wr # Fallthrough THEN wr
        ELSE IF i < 0 /\ SSL_want_x509_lookup(a) THEN SSL_ERROR_WANT_X509_LOOKUP
        ELSE ZeroOrSyscall(a, i)

\* a call of SSL_get_error(s, i): it reads the connection, the error queue and
\* the transports and changes none of them
GetErrorCall(i) ==
    /\ op' = [name |-> "SSL_get_error", arg |-> i,
              ret |-> SSL_get_error(s, errq, rbio, wbio, i)]
    /\ UNCHANGED <<s, errq, rbio, wbio, objects>>

\* the errors a queue may hold, by originating library
QueuedErrors ==
    MethodErrors \cup {SSL_R_PROTOCOL_IS_SHUTDOWN}

BoundedSeq(S, n) == UNION { [1..k -> S] : k \in 0..n }

\* SSL_get_error is tried on every connection an I/O call can leave behind
InitGetError ==
    /\ \E ver \in Versions, w \in RWStates,
          sd \in ShutdownModes, al \in Alerts :
          s = [set_connect_state(SSL_new(0, ver)) EXCEPT
                   !.rwstate = w, !.shutdown = sd,
                   !.warn_alert = IF ver = SSL2_VERSION THEN NoAlert ELSE al]
    /\ errq \in BoundedSeq(QueuedErrors, MaxQueued)
    /\ rbio \in BIOs
    /\ wbio \in BIOs
    /\ op = NoCall
    /\ heap = Unused /\ thr = Unused /\ sess = Unused /\ cache = Unused

NextGetError == \E i \in Results : GetErrorCall(i)

SpecGetError == InitGetError /\ [][NextGetError]_vars

----------------------------------------------------------------------------
(* Properties of the connection API *)

LastQueued(q) == IF q = <<>> THEN NoError ELSE q[Len(q)]

HasEntryPoint(a) == a.handshake_func # NoFunc

\* C1: while no handshake entry point is selected, SSL_read, SSL_peek,
\* SSL_write and SSL_shutdown each return -1, queue the Uninitialized error,
\* invoke no method routine and leave the connection as it was.
C1_UninitializedGate ==
    [][ (~HasEntryPoint(s)
         /\ op'.name \in {"SSL_read", "SSL_peek", "SSL_write", "SSL_shutdown"})
        => /\ op'.ret = -1
           /\ op'.err = SSL_R_UNINITIALIZED
           /\ LastQueued(errq') = SSL_R_UNINITIALIZED
           /\ op'.calls = <<>>
           /\ s' = s ]_vars

C1_Witness ==
    /\ op.name \in {"SSL_read", "SSL_peek", "SSL_write", "SSL_shutdown"}
    /\ ~HasEntryPoint(s)
    /\ op.ret = -1
    /\ LastQueued(errq) = SSL_R_UNINITIALIZED

\* C2: with an entry point and the received-shutdown flag set, SSL_read and
\* SSL_peek return 0 and invoke no method routine.
C2_ReceivedShutdownGate ==
    [][ (HasEntryPoint(s) /\ SSL_RECEIVED_SHUTDOWN \in s.shutdown
         /\ op'.name \in {"SSL_read", "SSL_peek"})
        => /\ op'.ret = 0
           /\ op'.calls = <<>>
           /\ errq' = errq ]_vars

C2_Witness ==
    /\ op.name \in {"SSL_read", "SSL_peek"}
    /\ HasEntryPoint(s)
    /\ SSL_RECEIVED_SHUTDOWN \in s.shutdown
    /\ op.ret = 0
    /\ op.calls = <<>>

\* C3: with an entry point and the sent-shutdown flag set, SSL_write returns
\* a negative result, queues ProtocolIsShutdown, sets rwstate to NOTHING and
\* invokes no method routine.
C3_SentShutdownGate ==
    [][ (HasEntryPoint(s) /\ SSL_SENT_SHUTDOWN \in s.shutdown
         /\ op'.name = "SSL_write")
        => /\ op'.ret < 0
           /\ op'.err = SSL_R_PROTOCOL_IS_SHUTDOWN
           /\ LastQueued(errq') = SSL_R_PROTOCOL_IS_SHUTDOWN
           /\ s'.rwstate = SSL_NOTHING
           /\ op'.calls = <<>> ]_vars

C3_Witness ==
    /\ op.name = "SSL_write"
    /\ HasEntryPoint(s)
    /\ SSL_SENT_SHUTDOWN \in s.shutdown
    /\ op.err = SSL_R_PROTOCOL_IS_SHUTDOWN
    /\ s.rwstate = SSL_NOTHING

\* C4: SSL_do_handshake without an entry point returns -1, queues
\* ConnectionTypeUnset, invokes neither the renegotiation check nor a
\* connect/accept routine and leaves the connection unchanged.
C4_DoHandshakeUnset ==
    [][ (~HasEntryPoint(s) /\ op'.name = "SSL_do_handshake")
        => /\ op'.ret = -1
           /\ op'.err = SSL_R_CONNECTION_TYPE_NOT_SET
           /\ LastQueued(errq') = SSL_R_CONNECTION_TYPE_NOT_SET
           /\ op'.calls = <<>>
           /\ s' = s ]_vars

C4_Witness ==
    /\ op.name = "SSL_do_handshake"
    /\ ~HasEntryPoint(s)
    /\ op.ret = -1
    /\ op.err = SSL_R_CONNECTION_TYPE_NOT_SET

\* C5: SSL_do_handshake with an entry point first invokes the renegotiation
\* check, then invokes the bound entry point exactly when the state the
\* check left is in-init or before; a dispatching call returns the entry
\* point's result, any other call returns 1.
C5_DoHandshakeDispatch ==
    [][ (HasEntryPoint(s) /\ op'.name = "SSL_do_handshake")
        => LET c == op'.calls
               dispatch == (op'.hook_state \cap (SSL_ST_INIT \cup SSL_ST_BEFORE)) # {}
           IN  /\ Len(c) >= 1
               /\ c[1].f = "ssl_renegotiate_check"
               /\ dispatch <=> Len(c) = 2
               /\ dispatch => (c[2].f = s.handshake_func /\ op'.ret = c[2].ret)
               /\ ~dispatch => (Len(c) = 1 /\ op'.ret = 1
                                /\ s'.state = op'.hook_state) ]_vars

\* a call whose renegotiation check moved the connection into a handshake
C5_Witness ==
    /\ op.name = "SSL_do_handshake"
    /\ Len(op.calls) = 2
    /\ op.hook_state = SSL_ST_RENEGOTIATE
    /\ op.ret = -1

\* C6: SSL_shutdown with an entry point returns 1 without invoking the
\* method's shutdown routine while the connection is in-init, and otherwise
\* returns what that routine returns and leaves the connection as that
\* routine left it.
C6_ShutdownInInit ==
    [][ (HasEntryPoint(s) /\ op'.name = "SSL_shutdown")
        => IF SSL_in_init(s)
           THEN op'.ret = 1 /\ op'.calls = <<>> /\ s' = s
           ELSE /\ Len(op'.calls) = 1
                /\ op'.calls[1].f = "ssl_shutdown"
                /\ \E o \in Method_ssl_shutdown(s) :
                      s' = o.s /\ op'.ret = o.ret /\ op'.calls[1].ret = o.ret ]_vars

C6_Witness ==
    /\ op.name = "SSL_shutdown"
    /\ HasEntryPoint(s)
    /\ SSL_in_init(s)
    /\ ~SSL_in_before(s)
    /\ op.ret = 1
    /\ op.calls = <<>>

\* C7: SSL_set_accept_state (SSL_set_connect_state) leaves state = BEFORE
\* with ACCEPT (CONNECT), server = 1 (0), the handshake entry point at the
\* method's accept (connect) routine, no shutdown flag, and no cipher or
\* compression context.
RoleSet(a, bit, srv, f) ==
    /\ a.state = bit \cup SSL_ST_BEFORE
    /\ a.server = srv
    /\ a.handshake_func = f
    /\ a.shutdown = {}
    /\ ~a.enc_read_ctx /\ ~a.enc_write_ctx /\ ~a.expand /\ ~a.compress

C7_RoleSetters ==
    [][ /\ op'.name = "SSL_set_accept_state"
            => RoleSet(s', SSL_ST_ACCEPT, 1, "ssl_accept")
        /\ op'.name = "SSL_set_connect_state"
            => RoleSet(s', SSL_ST_CONNECT, 0, "ssl_connect") ]_vars

\* a role switch on an established connection
C7_Witness ==
    /\ op.name = "SSL_set_accept_state"
    /\ RoleSet(s, SSL_ST_ACCEPT, 1, "ssl_accept")
    /\ s.new_session = 1

\* C8: SSL_renegotiate leaves the pending flag set, and a step of the API
\* takes the flag from set to clear only when a handshake completed in it.
C8_PendingSticky ==
    [][ /\ op'.name = "SSL_renegotiate" => SSL_renegotiate_pending(s')
        /\ (SSL_renegotiate_pending(s) /\ ~SSL_renegotiate_pending(s'))
            => op'.hs_done ]_vars

\* SSL_clear refused while a renegotiation is pending
C8_Witness ==
    /\ op.name = "SSL_clear"
    /\ op.ret = 0
    /\ SSL_renegotiate_pending(s)

----------------------------------------------------------------------------
(* Properties of SSL_get_error *)

\* C9: SSL_get_error returns NONE exactly for the positive results.
C9_NoneIffPositive ==
    op.name = "SSL_get_error" => (op.ret = SSL_ERROR_NONE <=> op.arg > 0)

\* a positive result with an error queued, the receive side shut down and a
\* blocked read
C9_Witness ==
    /\ op.name = "SSL_get_error"
    /\ op.arg > 0
    /\ op.ret = SSL_ERROR_NONE
    /\ errq # <<>>
    /\ s.rwstate = SSL_READING
    /\ SSL_RECEIVED_SHUTDOWN \in s.shutdown

\* C10: for a result <= 0 and a non-empty error queue SSL_get_error returns
\* SYSCALL when the first queued error comes from the system library and SSL
\* otherwise.
C10_QueuedErrorFirst ==
    (op.name = "SSL_get_error" /\ op.arg <= 0 /\ errq # <<>>)
        => op.ret = (IF Head(errq).lib = ERR_LIB_SYS THEN SSL_ERROR_SYSCALL
                     ELSE SSL_ERROR_SSL)

\* result 0 with close-notify received and a read retry pending, but a
\* protocol error queued ahead of a system error
C10_Witness ==
    /\ op.name = "SSL_get_error"
    /\ op.arg = 0
    /\ Len(errq) = 2
    /\ errq[1].lib = ERR_LIB_SSL
    /\ errq[2].lib = ERR_LIB_SYS
    /\ SSL_RECEIVED_SHUTDOWN \in s.shutdown
    /\ s.warn_alert = SSL_AD_CLOSE_NOTIFY
    /\ op.ret = SSL_ERROR_SSL

\* C11: with an empty error queue and a negative result SSL_get_error goes
\* by rwstate: read-blocked, the read transport's should-read gives
\* WANT_READ, else should-write WANT_WRITE, else a special retry gives
\* WANT_CONNECT, WANT_ACCEPT or (any other reason) SYSCALL; write-blocked,
\* the same on the write transport with should-write tried first;
\* lookup-blocked gives WANT_X509_LOOKUP; anything else gives SYSCALL.
Special(b) ==
    IF b.retry_reason = BIO_RR_CONNECT THEN SSL_ERROR_WANT_CONNECT
    ELSE IF b.retry_reason = BIO_RR_ACCEPT THEN SSL_ERROR_WANT_ACCEPT
    ELSE SSL_ERROR_SYSCALL

C11_Expected ==
    CASE s.rwstate = SSL_READING ->
            (IF "READ" \in rbio.flags THEN SSL_ERROR_WANT_READ
             ELSE IF "WRITE" \in rbio.flags THEN SSL_ERROR_WANT_WRITE
             ELSE IF "IO_SPECIAL" \in rbio.flags THEN Special(rbio)
             ELSE SSL_ERROR_SYSCALL)
      [] s.rwstate = SSL_WRITING ->
            (IF "WRITE" \in wbio.flags THEN SSL_ERROR_WANT_WRITE
             ELSE IF "READ" \in wbio.flags THEN SSL_ERROR_WANT_READ
             ELSE IF "IO_SPECIAL" \in wbio.flags THEN Special(wbio)
             ELSE SSL_ERROR_SYSCALL)
      [] s.rwstate = SSL_X509_LOOKUP -> SSL_ERROR_WANT_X509_LOOKUP
      [] OTHER -> SSL_ERROR_SYSCALL

C11_BlockedClassification ==
    (op.name = "SSL_get_error" /\ op.arg < 0 /\ errq = <<>>)
        => op.ret = C11_Expected

\* a blocked write whose transport asks for both directions, while the read
\* transport asks for a connect
C11_Witness ==
    /\ op.name = "SSL_get_error"
    /\ op.arg < 0
    /\ errq = <<>>
    /\ s.rwstate = SSL_WRITING
    /\ wbio.flags = {"READ", "WRITE"}
    /\ rbio.retry_reason = BIO_RR_CONNECT
    /\ op.ret = SSL_ERROR_WANT_WRITE

\* C12: with an empty error queue and result 0 SSL_get_error returns
\* ZERO_RETURN exactly when the version is SSLv2, or the received-shutdown
\* flag is set and the last warning alert is close-notify; otherwise SYSCALL.
C12_ZeroReturn ==
    (op.name = "SSL_get_error" /\ op.arg = 0 /\ errq = <<>>)
        => /\ op.ret \in {SSL_ERROR_ZERO_RETURN, SSL_ERROR_SYSCALL}
           /\ op.ret = SSL_ERROR_ZERO_RETURN
                <=> \/ s.version = SSL2_VERSION
                    \/ /\ SSL_RECEIVED_SHUTDOWN \in s.shutdown
                       /\ s.warn_alert = SSL_AD_CLOSE_NOTIFY

\* the receive side is shut down, but by another alert than close-notify
C12_Witness ==
    /\ op.name = "SSL_get_error"
    /\ op.arg = 0
    /\ errq = <<>>
    /\ s.version # SSL2_VERSION
    /\ SSL_RECEIVED_SHUTDOWN \in s.shutdown
    /\ s.warn_alert = "other_warning"
    /\ s.rwstate = SSL_READING
    /\ op.ret = SSL_ERROR_SYSCALL

-----------------------------------------------------------------------------
\* Reference counting of Contexts (SSL_CTX) and Connections (SSL).
\* The build modelled is the default one: OPENSSL_NO_TLSEXT is not defined, so
\* a Connection keeps two Context pointers, ctx and initial_ctx.

\* bounds: how many Contexts and Connections the process ever allocates
MaxCtx == 2
MaxConn == 2
\* bound: how many SSL_new calls fail in the method's ssl_new
MaxLeak == 1

NULL == 0
CtxIds == 1..MaxCtx
ConnIds == 1..MaxConn

\* A Context: alloc says whether its memory was never allocated ("none"), is
\* allocated ("live") or was returned to the allocator ("freed"); owned is the
\* number of references the application itself holds; teardowns counts the
\* runs of the code after the count test of SSL_CTX_free; leaked counts the
\* references nobody holds any more; given says that the constructor returned
\* the object to its caller.
NoCtx ==
    [alloc |-> "none", references |-> 0, owned |-> 0, teardowns |-> 0,
     leaked |-> 0, given |-> FALSE]

NoConn ==
    [alloc |-> "none", references |-> 0, owned |-> 0, teardowns |-> 0,
     ctx |-> NULL, initial_ctx |-> NULL, given |-> FALSE]

\* halt: "no" while the process runs, "aborted" after abort(), "corrupt"
\* after freed memory was freed again (nothing is known of the process then)
NewHeap(rc) ==
    [ctxs |-> [c \in CtxIds |-> NoCtx], conns |-> [k \in ConnIds |-> NoConn],
     REF_CHECK |-> rc, halt |-> "no"]

\* SSL_CTX_free(a) as a function of the heap
ctx_free(H, c) ==
    IF c = NULL \/ H.halt # "no" THEN H
    ELSE LET i == H.ctxs[c].references - 1
             H1 == [H EXCEPT !.ctxs[c].references = i]
         IN  IF i > 0 THEN H1
             ELSE IF i < 0 /\ H.REF_CHECK
             THEN [H1 EXCEPT !.halt = "aborted"]
             ELSE IF H.ctxs[c].alloc = "freed"
             THEN [H1 EXCEPT !.ctxs[c].teardowns = @ + 1, !.halt = "corrupt"]
             ELSE [H1 EXCEPT !.ctxs[c].teardowns = @ + 1,
                             !.ctxs[c].alloc = "freed"]

\* SSL_free(s) as a function of the heap: initial_ctx is released before ctx
ssl_free(H, k) ==
    IF k = NULL \/ H.halt # "no" THEN H
    ELSE LET i == H.conns[k].references - 1
             H1 == [H EXCEPT !.conns[k].references = i]
             H2 == ctx_free(ctx_free(H1, H.conns[k].initial_ctx),
                            H.conns[k].ctx)
         IN  IF i > 0 THEN H1
             ELSE IF i < 0 /\ H.REF_CHECK
             THEN [H1 EXCEPT !.halt = "aborted"]
             ELSE IF H.conns[k].alloc = "freed"
             THEN [H1 EXCEPT !.conns[k].teardowns = @ + 1, !.halt = "corrupt"]
             ELSE IF H2.halt # "no" THEN H2
             ELSE [H2 EXCEPT !.conns[k].teardowns = @ + 1,
                             !.conns[k].alloc = "freed"]

\* the results SSL_new can have: success, a failure before the Context is
\* referenced (the certificate set or the verify parameters cannot be
\* allocated), a failure of the method's ssl_new after it
NewOutcomes == {"ok", "fail_early", "fail_late"}


\* CRYPTO_add(&ctx->references,1,CRYPTO_LOCK_SSL_CTX)
ctx_ref(H, c) == [H EXCEPT !.ctxs[c].references = @ + 1]

\* SSL_new(ctx) with the result ending as how; k is the memory of the new SSL
ssl_new_one_ref(H, k, c, how) ==
    LET H1 == ctx_ref(H, c)
    IN  CASE how = "fail_early" -> H
          [] how = "fail_late" -> ctx_free(H1, c)
          [] how = "ok" ->
                [H1 EXCEPT !.conns[k] =
                    [alloc |-> "live", references |-> 1, owned |-> 1,
                     teardowns |-> 0, ctx |-> c, initial_ctx |-> c,
                     given |-> TRUE]]

ssl_new(H, k, c, how) ==
    LET H2 == ctx_ref(ctx_ref(H, c), c)
    IN  CASE how = "fail_early" -> H
          [] how = "fail_late" ->
                \* the error path releases s->ctx only: the reference taken
                \* for initial_ctx stays on the count with nobody holding it
                [ctx_free(H2, c) EXCEPT !.ctxs[c].leaked = @ + 1]
          [] how = "ok" ->
                [H2 EXCEPT !.conns[k] =
                    [alloc |-> "live", references |-> 1, owned |-> 1,
                     teardowns |-> 0, ctx |-> c, initial_ctx |-> c,
                     given |-> TRUE]]

\* SSL_set_SSL_CTX(ssl, ctx) as a function of the heap
set_SSL_CTX_no_ref(H, k, c) ==
    IF H.conns[k].ctx = c THEN H
    ELSE LET ctx == IF c = NULL THEN H.conns[k].initial_ctx ELSE c
             H2 == ctx_free(H, H.conns[k].ctx)
         IN  IF H2.halt # "no" THEN H2
             ELSE [H2 EXCEPT !.conns[k].ctx = ctx]

set_SSL_CTX(H, k, c) ==
    IF H.conns[k].ctx = c THEN H
    ELSE LET ctx == IF c = NULL THEN H.conns[k].initial_ctx ELSE c
             H1 == ctx_ref(H, ctx)
             H2 == ctx_free(H1, H.conns[k].ctx)
         IN  IF H2.halt # "no" THEN H2
             ELSE [H2 EXCEPT !.conns[k].ctx = ctx]

Running == heap.halt = "no"

\* the number of references leaked on the Contexts 1..n
RECURSIVE Leaked(_)
Leaked(n) == IF n = 0 THEN 0 ELSE heap.ctxs[n].leaked + Leaked(n - 1)
LiveCtx(c) == heap.ctxs[c].alloc = "live"
LiveConn(k) == heap.conns[k].alloc = "live"

\* SSL_CTX_new(meth): the next unused Context memory is c.  A failure after
\* the allocation releases the half-built Context again (err2).
SSL_CTX_new(c) ==
    /\ Running
    /\ heap.ctxs[c].alloc = "none"
    /\ \A d \in CtxIds : d < c => heap.ctxs[d].alloc # "none"
    /\ \E how \in {"ok", "fail"} :
        LET H1 == [heap EXCEPT !.ctxs[c] =
                      [NoCtx EXCEPT !.alloc = "live", !.references = 1]]
        IN  /\ heap' = IF how = "ok"
                       THEN [H1 EXCEPT !.ctxs[c].owned = 1,
                                       !.ctxs[c].given = TRUE]
                       ELSE ctx_free(H1, c)
    /\ UNCHANGED <<s, errq, rbio, wbio, op, thr, sess, cache>>

\* SSL_new(ctx) by a caller that passes a valid Context
SSL_new_on(k, c) ==
    /\ Running
    /\ heap.conns[k].alloc = "none"
    /\ \A j \in ConnIds : j < k => heap.conns[j].alloc # "none"
    /\ LiveCtx(c)
    /\ \E how \in NewOutcomes :
        /\ how = "fail_late" => Leaked(MaxCtx) < MaxLeak
        /\ heap' = ssl_new(heap, k, c, how)
    /\ UNCHANGED <<s, errq, rbio, wbio, op, thr, sess, cache>>

\* SSL_dup(s): SSL_new on SSL_get_SSL_CTX(s), i.e. on s->ctx; a failure while
\* copying releases the new Connection with SSL_free
SSL_dup(k, k2) ==
    /\ Running
    /\ LiveConn(k)
    /\ heap.conns[k2].alloc = "none"
    /\ \A j \in ConnIds : j < k2 => heap.conns[j].alloc # "none"
    /\ \E how \in NewOutcomes \cup {"fail_copy"} :
        LET c == heap.conns[k].ctx
        IN  /\ how = "fail_late" => Leaked(MaxCtx) < MaxLeak
            /\ heap' = IF how = "fail_copy"
                       THEN ssl_free([ssl_new(heap, k2, c, "ok")
                                        EXCEPT !.conns[k2].owned = 0,
                                               !.conns[k2].given = FALSE], k2)
                       ELSE ssl_new(heap, k2, c, how)
    /\ UNCHANGED <<s, errq, rbio, wbio, op, thr, sess, cache>>

\* SSL_set_SSL_CTX(ssl, ctx) with a valid Context or NULL
SSL_set_SSL_CTX(k, c) ==
    /\ Running
    /\ LiveConn(k)
    /\ IF c = NULL THEN TRUE ELSE LiveCtx(c)
    /\ heap' = set_SSL_CTX(heap, k, c)
    /\ UNCHANGED <<s, errq, rbio, wbio, op, thr, sess, cache>>

\* SSL_free(s) by the application, releasing a reference it holds
SSL_free(k) ==
    /\ Running
    /\ heap.conns[k].owned > 0
    /\ heap' = ssl_free([heap EXCEPT !.conns[k].owned = @ - 1], k)
    /\ UNCHANGED <<s, errq, rbio, wbio, op, thr, sess, cache>>

\* SSL_CTX_free(a) by the application, releasing a reference it holds
SSL_CTX_free(c) ==
    /\ Running
    /\ heap.ctxs[c].owned > 0
    /\ heap' = ctx_free([heap EXCEPT !.ctxs[c].owned = @ - 1], c)
    /\ UNCHANGED <<s, errq, rbio, wbio, op, thr, sess, cache>>

\* the default build: REF_CHECK is not defined
InitRef ==
    /\ s = Unused /\ errq = <<>> /\ rbio = Unused /\ wbio = Unused
    /\ thr = Unused /\ sess = Unused /\ cache = Unused
    /\ op = [name |-> "none"]
    /\ heap = NewHeap(FALSE)

NextRef ==
    \/ \E c \in CtxIds : SSL_CTX_new(c)
    \/ \E k \in ConnIds, c \in CtxIds : SSL_new_on(k, c)
    \/ \E k, k2 \in ConnIds : SSL_dup(k, k2)
    \/ \E k \in ConnIds, c \in CtxIds \cup {NULL} : SSL_set_SSL_CTX(k, c)
    \/ \E k \in ConnIds : SSL_free(k)
    \/ \E c \in CtxIds : SSL_CTX_free(c)

SpecRef == InitRef /\ [][NextRef]_vars


\* what holds of the Contexts and Connections between two calls
CtxTornDownOnce(c) ==
    /\ heap.ctxs[c].teardowns <= 1
    /\ heap.ctxs[c].alloc = "freed" <=> heap.ctxs[c].teardowns = 1
    /\ heap.ctxs[c].alloc = "freed" => heap.ctxs[c].references = 0
    /\ heap.ctxs[c].alloc = "live" => heap.ctxs[c].references >= 1

PointsAtLive(k) ==
    LiveConn(k) =>
        /\ heap.conns[k].ctx # NULL /\ LiveCtx(heap.conns[k].ctx)
        /\ heap.conns[k].initial_ctx # NULL
        /\ LiveCtx(heap.conns[k].initial_ctx)

\* a call tears a Context down exactly when it takes the count to 0
TornDownAtZero(c) ==
    heap'.ctxs[c].teardowns # heap.ctxs[c].teardowns
        <=> heap.ctxs[c].references >= 1 /\ heap'.ctxs[c].references = 0

CtxPointers(c) == {k \in ConnIds : LiveConn(k) /\ heap.conns[k].ctx = c}
InitialCtxPointers(c) ==
    {k \in ConnIds : LiveConn(k) /\ heap.conns[k].initial_ctx = c}

\* C14 as stated: a Connection holds one reference to its Context, so the
\* count of a live Context is the caller's reference plus the number of live
\* Connections created from it.
C14_OneReference ==
    \A c \in CtxIds :
        LiveCtx(c) =>
            heap.ctxs[c].references =
                heap.ctxs[c].owned + Cardinality(InitialCtxPointers(c))

\* C14 amended: a Connection holds one reference for each of its two Context
\* pointers.  A successful SSL_new raises the count by exactly two, the final
\* SSL_free lowers by one the count of the Context each pointer designates,
\* and the count of a live Context is the caller's references plus the number
\* of ctx pointers and of initial_ctx pointers of live Connections at it, plus
\* one for each SSL_new on it that failed in the method's ssl_new.
C14_TwoReferences ==
    /\ [](\A c \in CtxIds :
            LiveCtx(c) =>
                heap.ctxs[c].references =
                    heap.ctxs[c].owned + Cardinality(CtxPointers(c))
                    + Cardinality(InitialCtxPointers(c)) + heap.ctxs[c].leaked)
    /\ [][\A k \in ConnIds :
            /\ (heap.conns[k].alloc = "none" /\ heap'.conns[k].alloc = "live") =>
                    heap'.ctxs[heap'.conns[k].ctx].references
                        = heap.ctxs[heap'.conns[k].ctx].references + 2
            /\ (LiveConn(k) /\ heap'.conns[k].alloc = "freed") =>
                    \A c \in CtxIds :
                        heap'.ctxs[c].references =
                            heap.ctxs[c].references
                            - (IF heap.conns[k].ctx = c THEN 1 ELSE 0)
                            - (IF heap.conns[k].initial_ctx = c
                               THEN 1 ELSE 0)]_vars

\* C14 witness: one Connection created by SSL_new lives on a Context whose
\* only other reference is the caller's, and the count is 3.
C14_Witness ==
    \E c \in CtxIds :
        /\ LiveCtx(c)
        /\ heap.ctxs[c].owned = 1
        /\ Cardinality(InitialCtxPointers(c)) = 1
        /\ Cardinality(CtxPointers(c)) = 1
        /\ heap.ctxs[c].leaked = 0
        /\ heap.ctxs[c].references = 3


-----------------------------------------------------------------------------
\* Releases of a reference the caller does not hold, on an object that was
\* already destroyed.

\* What such a release can read as the count of the freed object: the memory
\* is the allocator's, so any value; 0 (the count the teardown left behind), 1
\* and 2 stand for the three ways the tests on the decremented count can go.
FreedCounts == {0, 1, 2}

\* SSL_CTX_free(a) once more after a was destroyed
SSL_CTX_free_again(c) ==
    /\ Running
    /\ heap.ctxs[c].alloc = "freed" /\ heap.ctxs[c].given
    /\ \E v \in FreedCounts :
        heap' = ctx_free([heap EXCEPT !.ctxs[c].references = v], c)
    /\ UNCHANGED <<s, errq, rbio, wbio, op, thr, sess, cache>>

\* SSL_free(s) once more after s was destroyed
SSL_free_again(k) ==
    /\ Running
    /\ heap.conns[k].alloc = "freed" /\ heap.conns[k].given
    /\ \E v \in FreedCounts :
        heap' = ssl_free([heap EXCEPT !.conns[k].references = v], k)
    /\ UNCHANGED <<s, errq, rbio, wbio, op, thr, sess, cache>>

NextRefAgain ==
    \/ NextRef
    \/ \E c \in CtxIds : SSL_CTX_free_again(c)
    \/ \E k \in ConnIds : SSL_free_again(k)

\* either build, with REF_CHECK defined or not
InitRefAgain ==
    /\ s = Unused /\ errq = <<>> /\ rbio = Unused /\ wbio = Unused
    /\ thr = Unused /\ sess = Unused /\ cache = Unused
    /\ op = [name |-> "none"]
    /\ \E rc \in BOOLEAN : heap = NewHeap(rc)

SpecRefAgain == InitRefAgain /\ [][NextRefAgain]_vars

\* C16: a release that drives the reference count of a Context or of a
\* Connection negative aborts and does not run the teardown code.
C16_UnderflowAborts ==
    [][/\ \A c \in CtxIds :
            (heap'.ctxs[c].references < 0
                /\ heap'.ctxs[c].references # heap.ctxs[c].references)
            => /\ heap'.halt = "aborted"
               /\ heap'.ctxs[c].teardowns = heap.ctxs[c].teardowns
       /\ \A k \in ConnIds :
            (heap'.conns[k].references < 0
                /\ heap'.conns[k].references # heap.conns[k].references)
            => /\ heap'.halt = "aborted"
               /\ heap'.conns[k].teardowns = heap.conns[k].teardowns]_vars


-----------------------------------------------------------------------------
\* Threads releasing references to one object concurrently.  Each thread holds
\* one reference and calls SSL_CTX_free (kind "SSL_CTX") or SSL_free (kind
\* "SSL") once; a call is two steps, the CRYPTO_add and the rest.

\* bound: the number of releasing threads
MaxThreads == 3

Threads == 1..MaxThreads

\* CRYPTO_add(&a->references,-1,lock): the addition is done under the lock
\* and its result returned
CRYPTO_add(t) ==
    /\ thr.halt = "no"
    /\ thr.pc[t] = "hold"
    /\ thr' = [thr EXCEPT !.references = @ - 1,
                          !.i[t] = thr.references - 1,
                          !.pc[t] = "added"]
    /\ UNCHANGED <<s, errq, rbio, wbio, op, heap, sess, cache>>

\* the tests on i and the teardown that follows them
release_rereads_count(t) ==
    /\ thr.halt = "no"
    /\ thr.pc[t] = "added"
    /\ thr' = IF thr.references > 0
              THEN [thr EXCEPT !.pc[t] = "done"]
              ELSE IF thr.references < 0 /\ thr.REF_CHECK
              THEN [thr EXCEPT !.halt = "aborted"]
              ELSE [thr EXCEPT !.pc[t] = "done", !.teardowns = @ + 1,
                               !.at_teardown = thr.references]
    /\ UNCHANGED <<s, errq, rbio, wbio, op, heap, sess, cache>>

release(t) ==
    /\ thr.halt = "no"
    /\ thr.pc[t] = "added"
    /\ thr' = IF thr.i[t] > 0
              THEN [thr EXCEPT !.pc[t] = "done"]
              ELSE IF thr.i[t] < 0 /\ thr.REF_CHECK
              THEN [thr EXCEPT !.halt = "aborted"]
              ELSE [thr EXCEPT !.pc[t] = "done", !.teardowns = @ + 1,
                               !.at_teardown = thr.references]
    /\ UNCHANGED <<s, errq, rbio, wbio, op, heap, sess, cache>>

\* the object has one reference for each thread and others references held
\* by holders that do not release
InitThreads ==
    /\ s = Unused /\ errq = <<>> /\ rbio = Unused /\ wbio = Unused
    /\ heap = Unused /\ sess = Unused /\ cache = Unused
    /\ op = [name |-> "none"]
    /\ \E kind \in {"SSL_CTX", "SSL"}, rc \in BOOLEAN, others \in {0, 1} :
        thr = [kind |-> kind, REF_CHECK |-> rc, others |-> others,
               references |-> MaxThreads + others, teardowns |-> 0,
               at_teardown |-> 0, halt |-> "no",
               pc |-> [t \in Threads |-> "hold"],
               i |-> [t \in Threads |-> 0]]

NextThreads ==
    \/ \E t \in Threads : CRYPTO_add(t)
    \/ \E t \in Threads : release(t)

SpecThreads == InitThreads /\ [][NextThreads]_vars

\* the threads whose decrement returned 0
SawZero == {t \in Threads : thr.pc[t] # "hold" /\ thr.i[t] = 0}

\* C15: in every interleaving of concurrent releases at most one releaser
\* sees the count reach zero, the teardown runs at most once and only with the
\* count at zero, and once all have released an object that had no other
\* holder, exactly one of them has torn it down.
C15_ExclusiveTeardown ==
    /\ Cardinality(SawZero) <= 1
    /\ thr.teardowns <= Cardinality(SawZero)
    /\ thr.teardowns > 0 => thr.at_teardown = 0 /\ thr.references = 0
    /\ (\A t \in Threads : thr.pc[t] = "done") =>
            thr.teardowns = (IF thr.others = 0 THEN 1 ELSE 0)
    /\ thr.halt = "no"

\* C15 witness: every thread has released, the last reference was among
\* theirs, and one teardown has run.
C15_Witness ==
    /\ \A t \in Threads : thr.pc[t] = "done"
    /\ thr.others = 0
    /\ thr.teardowns = 1
    /\ Cardinality(SawZero) = 1


-----------------------------------------------------------------------------
\* Sessions as the session cache sees them: SSL_SESSION_hash and
\* SSL_SESSION_cmp are the callbacks SSL_CTX_new gives the cache's hash table.

SSL_MAX_SSL_SESSION_ID_LENGTH == 32
SSL2_SSL_SESSION_ID_LENGTH == 16

\* the values a byte of a session id takes in the model
Bytes == {0, 1}

\* the positions of the id buffer whose bytes the model varies: the four the
\* hash reads and the one after them
VariedPositions == 1..5

\* the id lengths the model draws
IdLengths == {1, 2, 3, 4, 5, SSL2_SSL_SESSION_ID_LENGTH,
              SSL_MAX_SSL_SESSION_ID_LENGTH}

BufferPositions == 1..SSL_MAX_SSL_SESSION_ID_LENGTH

\* the id buffer holding the n-byte id whose varied bytes are v, followed by
\* the bytes pad (pad[p] is read only for p > n); id bytes that are not varied
\* are 1
IdBuffer(v, n, pad) ==
    [p \in BufferPositions |->
        IF p > n THEN pad[p]
        ELSE IF p \in VariedPositions THEN v[p] ELSE 1]

ZeroPad == [p \in BufferPositions |-> 0]

\* the n-byte ids of the model
Ids(n) == {IdBuffer(v, n, ZeroPad) : v \in [VariedPositions -> Bytes]}

\* A session: other stands for every field that is neither the version nor
\* the id.  The sessions of the model were built by SSL_SESSION_new, which
\* zeroes the structure, hence the zero bytes after the id.
Session(ver, n, v, o) ==
    [ssl_version |-> ver, session_id_length |-> n,
     session_id |-> IdBuffer(v, n, ZeroPad), other |-> o]

\* an SSLv2 session has a 16-byte id
ValidLength(ver, n) == ver = SSL2_VERSION => n = SSL2_SSL_SESSION_ID_LENGTH

Sessions ==
    {Session(x[1], x[2], x[3], x[4]) :
        x \in {y \in Versions \X IdLengths \X [VariedPositions -> Bytes]
                        \X {0, 1} : ValidLength(y[1], y[2])}}

\* SSL_SESSION_hash: the first four bytes of the id buffer, least significant
\* first, whatever the id's length
SSL_SESSION_hash(a) ==
    a.session_id[1] + 256 * a.session_id[2] + 65536 * a.session_id[3]
        + 16777216 * a.session_id[4]

\* memcmp(x, y, n): 0 when the first n bytes agree, else the sign of the first
\* difference
memcmp(x, y, n) ==
    LET diff == {p \in 1..n : x[p] # y[p]}
        first == CHOOSE p \in diff : \A q \in diff : p <= q
    IN  IF diff = {} THEN 0 ELSE IF x[first] < y[first] THEN -1 ELSE 1

SSL_SESSION_cmp_no_version(a, b) ==
    IF a.session_id_length # b.session_id_length THEN 1
    ELSE memcmp(a.session_id, b.session_id, a.session_id_length)

SSL_SESSION_cmp(a, b) ==
    IF a.ssl_version # b.ssl_version THEN 1
    ELSE IF a.session_id_length # b.session_id_length THEN 1
    ELSE memcmp(a.session_id, b.session_id, a.session_id_length)

\* the hash table calling its compare callback on two sessions
CompareCall ==
    /\ op.name = "none"
    /\ op' = [name |-> "SSL_SESSION_cmp",
              ret |-> SSL_SESSION_cmp(sess.a, sess.b),
              hash_a |-> SSL_SESSION_hash(sess.a),
              hash_b |-> SSL_SESSION_hash(sess.b)]
    /\ UNCHANGED <<s, errq, rbio, wbio, heap, thr, sess, cache>>

InitCmp ==
    /\ s = Unused /\ errq = <<>> /\ rbio = Unused /\ wbio = Unused
    /\ heap = Unused /\ thr = Unused /\ cache = Unused
    /\ op = [name |-> "none"]
    /\ \E a, b \in Sessions : sess = [a |-> a, b |-> b]

NextCmp == CompareCall

SpecCmp == InitCmp /\ [][NextCmp]_vars

\* the two sessions have the same id: the same length and the same bytes over
\* that length
SameId(a, b) ==
    /\ a.session_id_length = b.session_id_length
    /\ \A p \in 1..a.session_id_length : a.session_id[p] = b.session_id[p]

\* C17: SSL_SESSION_cmp returns 0 if and only if the two sessions have the
\* same protocol version, the same id length and the same id bytes over that
\* length, whatever their other fields and whether or not their hashes collide.
C17_CmpEquality ==
    op.name = "SSL_SESSION_cmp" =>
        (op.ret = 0 <=>
            sess.a.ssl_version = sess.b.ssl_version /\ SameId(sess.a, sess.b))

\* C17 witness: two sessions of one version and one id length whose hashes
\* collide and whose ids differ after the fourth byte were judged unequal.
C17_Witness ==
    /\ op.name = "SSL_SESSION_cmp"
    /\ op.hash_a = op.hash_b
    /\ sess.a.ssl_version = sess.b.ssl_version
    /\ sess.a.session_id_length = sess.b.session_id_length
    /\ sess.a.session_id[5] # sess.b.session_id[5]
    /\ op.ret # 0


-----------------------------------------------------------------------------
\* The session cache of one Context (ctx->sessions) and the lookup
\* SSL_has_matching_session_id does in it.

\* bound: how many sessions are resident at a time
MaxResident == 1

\* lh_retrieve(table, probe): the hash table looks among the entries whose
\* hash is the probe's for one its compare callback judges equal
lh_retrieve(table, probe) ==
    {r \in table : /\ SSL_SESSION_hash(r) = SSL_SESSION_hash(probe)
                   /\ SSL_SESSION_cmp(r, probe) = 0}

\* lh_insert(table, x): x takes the place of the entry equal to it
lh_insert(table, x) == (table \ lh_retrieve(table, x)) \cup {x}

\* what a buffer on the stack can hold after its first id_len bytes, which
\* the caller is about to overwrite: the uninitialised bytes at positions up
\* to 4 are any bytes, those after them are never read and are left 0 here
StackBytes(id_len) ==
    {[p \in BufferPositions |-> IF id_len < p /\ p <= 4 THEN g[p] ELSE 0] :
        g \in [1..4 -> Bytes]}

\* the probe session SSL_has_matching_session_id builds on its stack from the
\* id_len bytes at id, the bytes it does not write being junk
Probe(version, id, id_len, junk) ==
    LET pad == IF version = SSL2_VERSION
                    /\ id_len < SSL2_SSL_SESSION_ID_LENGTH
               THEN [p \in BufferPositions |->
                        IF p <= SSL2_SSL_SESSION_ID_LENGTH THEN 0 ELSE junk[p]]
               ELSE junk
    IN  [ssl_version |-> version,
         session_id_length |->
            IF version = SSL2_VERSION /\ id_len < SSL2_SSL_SESSION_ID_LENGTH
            THEN SSL2_SSL_SESSION_ID_LENGTH ELSE id_len,
         session_id |->
            [p \in BufferPositions |-> IF p <= id_len THEN id[p] ELSE pad[p]],
         other |-> 0]

\* SSL_CTX_add_session: a session becomes resident
AddSession ==
    /\ op.name # "SSL_has_matching_session_id"
    /\ Cardinality(cache.sessions) < MaxResident
    /\ \E x \in Sessions :
        cache' = [cache EXCEPT !.sessions = lh_insert(@, x)]
    /\ op' = [name |-> "SSL_CTX_add_session"]
    /\ UNCHANGED <<s, errq, rbio, wbio, heap, thr, sess>>

\* SSL_CTX_remove_session, or a flush that takes a session out
RemoveSession ==
    /\ op.name # "SSL_has_matching_session_id"
    /\ \E x \in cache.sessions :
        cache' = [cache EXCEPT !.sessions = @ \ {x}]
    /\ op' = [name |-> "SSL_CTX_remove_session"]
    /\ UNCHANGED <<s, errq, rbio, wbio, heap, thr, sess>>

\* SSL_has_matching_session_id(ssl, id, id_len), id holding the bytes of one
\* of the model's ids
SSL_has_matching_session_id(id_len) ==
    /\ op.name # "SSL_has_matching_session_id"
    /\ \E id \in Ids(IF id_len > SSL_MAX_SSL_SESSION_ID_LENGTH
                     THEN SSL_MAX_SSL_SESSION_ID_LENGTH ELSE id_len),
          junk \in StackBytes(id_len) :
        LET r == Probe(cache.version, id, id_len, junk)
        IN  op' = [name |-> "SSL_has_matching_session_id",
                   id |-> id, id_len |-> id_len,
                   ret |-> IF id_len > SSL_MAX_SSL_SESSION_ID_LENGTH THEN 0
                           ELSE IF lh_retrieve(cache.sessions, r) # {}
                           THEN 1 ELSE 0]
    /\ UNCHANGED <<s, errq, rbio, wbio, heap, thr, sess, cache>>

InitLookup ==
    /\ s = Unused /\ errq = <<>> /\ rbio = Unused /\ wbio = Unused
    /\ heap = Unused /\ thr = Unused /\ sess = Unused
    /\ op = [name |-> "none"]
    /\ \E ver \in Versions : cache = [version |-> ver, sessions |-> {}]

NextLookup ==
    \/ AddSession
    \/ RemoveSession
    \/ \E n \in IdLengths \cup {SSL_MAX_SSL_SESSION_ID_LENGTH + 1} :
            SSL_has_matching_session_id(n)

SpecLookup == InitLookup /\ [][NextLookup]_vars

\* C18: a lookup keyed by the version and the id bytes of a resident session
\* finds it, for every id length from 1 to 32.
C18_LookupFindsInserted ==
    (/\ op.name = "SSL_has_matching_session_id"
     /\ op.id_len \in 1..SSL_MAX_SSL_SESSION_ID_LENGTH
     /\ \E x \in cache.sessions :
            /\ x.ssl_version = cache.version
            /\ x.session_id_length = op.id_len
            /\ \A p \in 1..op.id_len : x.session_id[p] = op.id[p])
        => op.ret = 1


-----------------------------------------------------------------------------
\* ssl_update_cache: what a connection does with its session once a handshake
\* has succeeded.

SSL_SESS_CACHE_CLIENT == "CLIENT"
SSL_SESS_CACHE_SERVER == "SERVER"
SSL_SESS_CACHE_NO_AUTO_CLEAR == "NO_AUTO_CLEAR"
SSL_SESS_CACHE_NO_INTERNAL_STORE == "NO_INTERNAL_STORE"

\* a cache mode, and the mode argument, is the set of the bits set in it
CacheModes ==
    SUBSET {SSL_SESS_CACHE_CLIENT, SSL_SESS_CACHE_SERVER,
            SSL_SESS_CACHE_NO_AUTO_CLEAR, SSL_SESS_CACHE_NO_INTERNAL_STORE}

\* the mode the handshake code passes: the role of the connection
RoleModes == {{SSL_SESS_CACHE_CLIENT}, {SSL_SESS_CACHE_SERVER}}

\* The sessions that can be resident: "mine" is the connection's session,
\* "same_key" another session with its version and id, "old" a session that
\* has expired, "due" one that expires at the first of the times a flush can
\* be asked at, "fresh" one that has not expired.
Residents ==
    {r \in SUBSET {"mine", "same_key", "old", "due", "fresh"} :
        ~({"mine", "same_key"} \subseteq r)}

\* what time(NULL) can return at the handshake
NowValues == {2, 3}

\* a session's expiry: its time plus its timeout
Expiry(x) ==
    CASE x = "old" -> 1
      [] x = "due" -> 2
      [] OTHER -> 4

\* SSL_CTX_add_session(ctx, session): refused when an entry with the
\* session's key is resident
SSL_CTX_add_session(resident) ==
    IF resident \cap {"mine", "same_key"} # {}
    THEN [ret |-> 0, sessions |-> resident]
    ELSE [ret |-> 1, sessions |-> resident \cup {"mine"}]

\* SSL_CTX_flush_sessions(ctx, t): the sessions whose expiry precedes t leave,
\* and every session leaves when t is 0
SSL_CTX_flush_sessions(resident, t) ==
    IF t = 0 THEN {} ELSE {x \in resident : ~(Expiry(x) < t)}

\* the new-session callbacks: none, one that keeps the reference it is given
\* (returns non-zero), one that declines it (returns 0)
Callbacks == {"NULL", "adopts", "declines"}

\* whether ssl_update_cache runs the new-session callback, add_ret being what
\* SSL_CTX_add_session returns if it is called
new_session_called_on_refusal(c, mode, add_ret) ==
    /\ c.session_cache_mode \cap mode # {}
    /\ c.hit = 0
    /\ c.new_session_cb # "NULL"

new_session_called(c, mode, add_ret) ==
    /\ c.session_cache_mode \cap mode # {}
    /\ c.hit = 0
    /\ SSL_SESS_CACHE_NO_INTERNAL_STORE \in c.session_cache_mode
            \/ add_ret = 1
    /\ c.new_session_cb # "NULL"

\* the session's reference count around the callback: CRYPTO_add before it,
\* SSL_SESSION_free after it when it returned 0
callback_references_never_released(c, refs) ==
    [held |-> refs + 1, after |-> refs + 1]

callback_references(c, refs) ==
    [held |-> refs + 1,
     after |-> IF c.new_session_cb = "declines" THEN refs ELSE refs + 1]

\* ssl_update_cache after the test of the id length: the cache and the
\* record of the call it leaves
cache_update_ignores_hit(c, mode) ==
    LET i == c.session_cache_mode
        try == i \cap mode # {}
        attempted == try /\ SSL_SESS_CACHE_NO_INTERNAL_STORE \notin i
        add == SSL_CTX_add_session(c.sessions)
        stored == IF attempted THEN add.sessions ELSE c.sessions
        called == /\ try
                  /\ SSL_SESS_CACHE_NO_INTERNAL_STORE \in i
                        \/ (attempted /\ add.ret = 1)
                  /\ c.new_session_cb # "NULL"
        cached == c.session.references
                    + (IF attempted /\ add.ret = 1 THEN 1 ELSE 0)
        good == IF SSL_SESS_CACHE_CLIENT \in mode
                THEN c.sess_connect_good ELSE c.sess_accept_good
        flushed == /\ SSL_SESS_CACHE_NO_AUTO_CLEAR \notin i
                   /\ mode \subseteq i
                   /\ good % 256 = 255
    IN  [cache |->
            [c EXCEPT
                !.sessions = IF flushed
                             THEN SSL_CTX_flush_sessions(stored, c.now)
                             ELSE stored,
                !.session.references =
                    IF called THEN callback_references(c, cached).after
                    ELSE cached],
         op |-> [name |-> "ssl_update_cache", mode |-> mode,
                 attempted |-> attempted,
                 added |-> attempted /\ add.ret = 1,
                 called |-> IF called THEN 1 ELSE 0,
                 held |-> IF called THEN callback_references(c, cached).held
                          ELSE 0,
                 flushed |-> flushed]]

cache_update(c, mode) ==
    LET i == c.session_cache_mode
        try == i \cap mode # {} /\ c.hit = 0
        attempted == try /\ SSL_SESS_CACHE_NO_INTERNAL_STORE \notin i
        add == SSL_CTX_add_session(c.sessions)
        stored == IF attempted THEN add.sessions ELSE c.sessions
        called == new_session_called(c, mode, add.ret)
        cached == c.session.references
                    + (IF attempted /\ add.ret = 1 THEN 1 ELSE 0)
        good == IF SSL_SESS_CACHE_CLIENT \in mode
                THEN c.sess_connect_good ELSE c.sess_accept_good
        flushed == /\ SSL_SESS_CACHE_NO_AUTO_CLEAR \notin i
                   /\ mode \subseteq i
                   /\ good % 256 = 255
    IN  [cache |->
            [c EXCEPT
                !.sessions = IF flushed
                             THEN SSL_CTX_flush_sessions(stored, c.now)
                             ELSE stored,
                !.session.references =
                    IF called THEN callback_references(c, cached).after
                    ELSE cached],
         op |-> [name |-> "ssl_update_cache", mode |-> mode,
                 attempted |-> attempted,
                 added |-> attempted /\ add.ret = 1,
                 called |-> IF called THEN 1 ELSE 0,
                 held |-> IF called THEN callback_references(c, cached).held
                          ELSE 0,
                 flushed |-> flushed]]

\* the record of a call that returned at the test of the id length
NotCached(mode) ==
    [name |-> "ssl_update_cache", mode |-> mode, attempted |-> FALSE,
     added |-> FALSE, called |-> 0, held |-> 0, flushed |-> FALSE]

\* ssl_update_cache(s, mode)
ssl_update_cache_any_length(mode) ==
    /\ op.name = "none"
    /\ cache' = cache_update(cache, mode).cache
    /\ op' = cache_update(cache, mode).op
    /\ UNCHANGED <<s, errq, rbio, wbio, heap, thr, sess>>

ssl_update_cache(mode) ==
    /\ op.name = "none"
    /\ IF cache.session.session_id_length = 0
       THEN cache' = cache /\ op' = NotCached(mode)
       ELSE /\ cache' = cache_update(cache, mode).cache
            /\ op' = cache_update(cache, mode).op
    /\ UNCHANGED <<s, errq, rbio, wbio, heap, thr, sess>>

\* a Context with its cache and a connection of it whose handshake has just
\* succeeded; a resumed connection's session may have an empty id only when
\* it is not resident
InitCache ==
    /\ s = Unused /\ errq = <<>> /\ rbio = Unused /\ wbio = Unused
    /\ heap = Unused /\ thr = Unused /\ sess = Unused
    /\ op = [name |-> "none"]
    /\ \E m \in CacheModes, r \in Residents, cb \in Callbacks,
          n \in {0, SSL_MAX_SSL_SESSION_ID_LENGTH}, hit \in {0, 1},
          cg \in {0, 255, 511}, ag \in {0, 255, 511}, now \in NowValues :
        /\ n = 0 => r \cap {"mine", "same_key"} = {}
        /\ cache = [session_cache_mode |-> m, sessions |-> r, now |-> now,
                    new_session_cb |-> cb,
                    session |-> [session_id_length |-> n,
                                 references |-> IF "mine" \in r THEN 2 ELSE 1],
                    hit |-> hit,
                    sess_connect_good |-> cg, sess_accept_good |-> ag]

NextCache == \E mode \in RoleModes : ssl_update_cache(mode)

SpecCache == InitCache /\ [][NextCache]_vars

\* C19: ssl_update_cache on a connection whose session has an empty id does
\* nothing, whatever the cache mode: the cache keeps its contents and its
\* size, nothing is inserted and no new-session callback runs.
C19_EmptyIdNotCached ==
    [][(op'.name = "ssl_update_cache" /\ cache.session.session_id_length = 0)
        => cache' = cache /\ op' = NotCached(op'.mode)]_vars

\* C19 witness: the call returned on a session with an empty id although the
\* mode has the role bit, the connection was not resumed, a callback is set
\* and the automatic flush was due with an expired session resident.
C19_Witness ==
    /\ op.name = "ssl_update_cache"
    /\ cache.session.session_id_length = 0
    /\ op.mode \subseteq cache.session_cache_mode
    /\ SSL_SESS_CACHE_NO_INTERNAL_STORE \notin cache.session_cache_mode
    /\ SSL_SESS_CACHE_NO_AUTO_CLEAR \notin cache.session_cache_mode
    /\ cache.hit = 0
    /\ cache.new_session_cb # "NULL"
    /\ cache.sess_connect_good = 255 /\ cache.sess_accept_good = 255
    /\ "old" \in cache.sessions
    /\ ~op.attempted /\ op.called = 0 /\ ~op.flushed

\* the conditions under which the session goes to the internal cache
MayStore(c, mode) ==
    /\ c.session.session_id_length # 0
    /\ c.hit = 0
    /\ c.session_cache_mode \cap mode # {}
    /\ SSL_SESS_CACHE_NO_INTERNAL_STORE \notin c.session_cache_mode

\* C20: ssl_update_cache attempts to insert the session into the internal
\* cache exactly when the id is not empty, the connection was not resumed, the
\* cache mode has the role bit of the call and internal storage is not
\* suppressed; in every other case no session enters the cache.
C20_InsertionConditions ==
    [][op'.name = "ssl_update_cache" =>
        /\ op'.attempted <=> MayStore(cache, op'.mode)
        /\ ~MayStore(cache, op'.mode) =>
                cache'.sessions \subseteq cache.sessions]_vars

\* C20 witness: the four conditions held, the insertion was attempted and the
\* session is resident.
C20_Witness ==
    /\ op.name = "ssl_update_cache"
    /\ op.attempted /\ op.added
    /\ cache.hit = 0
    /\ "mine" \in cache.sessions
    /\ cache.session.references = 2

\* the reference SSL_CTX_add_session took for the cache in the call just made
CacheReference == IF op'.added THEN 1 ELSE 0

\* C21: a call of ssl_update_cache runs the new-session callback at most once,
\* and runs it exactly when the session id is non-empty, the role is in the
\* cache mode, the handshake did not resume a session, a callback is
\* registered, and either internal storage is suppressed (no insertion is
\* attempted) or the insertion succeeded; an insertion refused because the key
\* is already resident runs no callback.
C21_CallbackConditions ==
    [][op'.name = "ssl_update_cache" =>
        /\ op'.called \in {0, 1}
        /\ op'.called = 1 <=>
            /\ cache.session.session_id_length # 0
            /\ cache.session_cache_mode \cap op'.mode # {}
            /\ cache.hit = 0
            /\ cache.new_session_cb # "NULL"
            /\ \/ /\ SSL_SESS_CACHE_NO_INTERNAL_STORE
                        \in cache.session_cache_mode
                  /\ ~op'.attempted
               \/ op'.added
        /\ (op'.attempted /\ cache.sessions \cap {"mine", "same_key"} # {})
                => (~op'.added /\ op'.called = 0)]_vars

\* C21 witness: the insertion succeeded and the callback ran once.
C21_Witness ==
    /\ op.name = "ssl_update_cache"
    /\ op.attempted /\ op.added
    /\ op.called = 1
    /\ cache.new_session_cb = "adopts"

\* C22: the callback runs with one more reference on the session than the call
\* found (besides the cache's own); the reference is dropped again exactly when
\* the callback returns 0, so the count ends one higher when the callback
\* adopted the session and unchanged when it declined or did not run, and the
\* count never reaches zero while the connection holds the session.
C22_CallbackReference ==
    [][op'.name = "ssl_update_cache" =>
        /\ op'.called = 1 =>
            /\ op'.held = cache.session.references + CacheReference + 1
            /\ cache'.session.references =
                    IF cache.new_session_cb = "declines"
                    THEN op'.held - 1 ELSE op'.held
        /\ cache'.session.references - CacheReference =
                IF op'.called = 1 /\ cache.new_session_cb = "adopts"
                THEN cache.session.references + 1
                ELSE cache.session.references
        /\ cache'.session.references >= 1]_vars

\* C22 witness: the callback ran on a stored session and declined it.
C22_Witness ==
    /\ op.name = "ssl_update_cache"
    /\ op.called = 1 /\ op.added
    /\ cache.new_session_cb = "declines"
    /\ op.held = 3
    /\ cache.session.references = 2

-----------------------------------------------------------------------------
\* Handshakes in sequence on one Context, and the Context's teardown.

\* the handshakes of one run
MaxHandshakes == 4

\* the counts of good handshakes a run starts from
GoodStarts == {253, 509}

\* ssl_update_cache(s, mode) as a function of the Context and connection
update_cache(c, mode) ==
    IF c.session.session_id_length = 0
    THEN [cache |-> c, op |-> NotCached(mode)]
    ELSE cache_update(c, mode)

\* the handshake code counts the good handshake of its role after the cache
\* was updated
count_good(c, mode) ==
    IF SSL_SESS_CACHE_CLIENT \in mode
    THEN [c EXCEPT !.sess_connect_good = @ + 1]
    ELSE [c EXCEPT !.sess_accept_good = @ + 1]

\* the session of an earlier connection is one more unexpired session
Settled(resident) ==
    IF "mine" \in resident THEN (resident \ {"mine"}) \cup {"fresh"}
    ELSE resident

\* a connection of the Context completes a handshake in the given role with a
\* session of its own, or a resumed one
Handshake(mode) ==
    /\ cache.pc = "live" /\ cache.table = "live"
    /\ cache.handshakes < MaxHandshakes
    /\ \E n \in {0, SSL_MAX_SSL_SESSION_ID_LENGTH}, hit \in {0, 1} :
        LET c == [cache EXCEPT
                    !.session = [session_id_length |-> n, references |-> 1],
                    !.hit = hit,
                    !.sessions = Settled(@),
                    !.handshakes = @ + 1]
            r == update_cache(c, mode)
        IN  /\ cache' = count_good(r.cache, mode)
            /\ op' = r.op
    /\ UNCHANGED <<s, errq, rbio, wbio, heap, thr, sess>>

\* SSL_CTX_free up to the test of the count
SSL_CTX_release ==
    /\ cache.pc = "live"
    /\ cache' = [cache EXCEPT !.references = @ - 1,
                              !.pc = IF cache.references - 1 > 0
                                     THEN "live" ELSE "flush"]
    /\ UNCHANGED <<s, errq, rbio, wbio, op, heap, thr, sess>>

\* the teardown's flush of the cache: the remove-session callback runs on
\* each session that leaves, with the ex_data as it is then
teardown_flush_at_now(c) ==
    LET rest == IF c.table = "NULL" THEN c.sessions
                ELSE SSL_CTX_flush_sessions(c.sessions, c.now)
    IN  [c EXCEPT !.sessions = rest,
                  !.removed = {<<x, c.ex_data>> : x \in c.sessions \ rest},
                  !.pc = "ex_data"]

teardown_flush_after_ex_data(c) ==
    LET rest == IF c.table = "NULL" THEN c.sessions
                ELSE SSL_CTX_flush_sessions(c.sessions, 0)
    IN  [c EXCEPT !.sessions = rest,
                  !.ex_data = "freed",
                  !.removed = {<<x, "freed">> : x \in c.sessions \ rest},
                  !.pc = "ex_data"]

teardown_flush(c) ==
    LET rest == IF c.table = "NULL" THEN c.sessions
                ELSE SSL_CTX_flush_sessions(c.sessions, 0)
    IN  [c EXCEPT !.sessions = rest,
                  !.removed = {<<x, c.ex_data>> : x \in c.sessions \ rest},
                  !.pc = "ex_data"]

\* CRYPTO_free_ex_data
teardown_ex_data(c) ==
    [c EXCEPT !.ex_data = "freed", !.pc = "lh_free"]

\* lh_free of the cache's table
teardown_lh_free(c) ==
    [c EXCEPT !.table = IF @ = "NULL" THEN @ ELSE "freed", !.pc = "freed"]

SSL_CTX_free_flush ==
    /\ cache.pc = "flush"
    /\ cache' = teardown_flush(cache)
    /\ UNCHANGED <<s, errq, rbio, wbio, op, heap, thr, sess>>

SSL_CTX_free_ex_data ==
    /\ cache.pc = "ex_data"
    /\ cache' = teardown_ex_data(cache)
    /\ UNCHANGED <<s, errq, rbio, wbio, op, heap, thr, sess>>

SSL_CTX_free_sessions ==
    /\ cache.pc = "lh_free"
    /\ cache' = teardown_lh_free(cache)
    /\ UNCHANGED <<s, errq, rbio, wbio, op, heap, thr, sess>>

\* a Context in use that has seen some handshakes, or one SSL_CTX_new gave up
\* building before or after it made the cache's table
InitHandshakes ==
    /\ s = Unused /\ errq = <<>> /\ rbio = Unused /\ wbio = Unused
    /\ heap = Unused /\ thr = Unused /\ sess = Unused
    /\ op = [name |-> "none"]
    /\ \E m \in CacheModes, r \in {{}, {"old", "due", "fresh"}},
          good \in GoodStarts, now \in NowValues, refs \in {1, 2},
          table \in {"live", "NULL"} :
        /\ table = "NULL" => (r = {} /\ refs = 1)
        /\ cache = [session_cache_mode |-> m, sessions |-> r, now |-> now,
                    new_session_cb |-> "NULL",
                    session |-> [session_id_length |-> 0, references |-> 1],
                    hit |-> 0,
                    sess_connect_good |-> good, sess_accept_good |-> good,
                    handshakes |-> 0, references |-> refs, pc |-> "live",
                    ex_data |-> "live", table |-> table, removed |-> {}]

NextHandshakes ==
    \/ \E mode \in RoleModes : Handshake(mode)
    \/ SSL_CTX_release
    \/ SSL_CTX_free_flush
    \/ SSL_CTX_free_ex_data
    \/ SSL_CTX_free_sessions

SpecHandshakes == InitHandshakes /\ [][NextHandshakes]_vars

\* the role's count of good handshakes
Good(c, mode) ==
    IF SSL_SESS_CACHE_CLIENT \in mode
    THEN c.sess_connect_good ELSE c.sess_accept_good

\* C23: on a Context whose cache mode has the role and not NO_AUTO_CLEAR, a
\* handshake of the role flushes the cache exactly when the low 8 bits of the
\* role's count of good handshakes are 0xff, and no other handshake does.
C23_FlushEvery256 ==
    [][(/\ op'.name = "ssl_update_cache"
        /\ cache'.handshakes = cache.handshakes + 1
        /\ op'.mode \subseteq cache.session_cache_mode
        /\ SSL_SESS_CACHE_NO_AUTO_CLEAR \notin cache.session_cache_mode)
        => (op'.flushed <=> Good(cache, op'.mode) % 256 = 255)]_vars

\* what a flush at cutoff t is said to leave of the sessions resident before
FlushedAt(before, after, t) ==
    /\ \A x \in after : ~(Expiry(x) < t)
    /\ \A x \in before : Expiry(x) >= t => x \in after

\* the sessions resident when ssl_update_cache reached its flush
BeforeAutoFlush ==
    Settled(cache.sessions) \cup (IF op'.added THEN {"mine"} ELSE {})

\* the step of SSL_CTX_free that flushes the cache
TeardownFlush == cache.pc = "flush" /\ cache'.pc = "ex_data"

\* C24 as stated: after flush(t) no resident session has an expiry before t
\* and every session resident before with expiry >= t is still resident, at
\* the automatic flush (t = now) and at the flush of the Context's teardown.
C24_FlushKeepsUnexpired ==
    [][/\ (op'.name = "ssl_update_cache" /\ op'.flushed
            /\ cache'.handshakes = cache.handshakes + 1)
            => FlushedAt(BeforeAutoFlush, cache'.sessions, cache.now)
       /\ TeardownFlush => FlushedAt(cache.sessions, cache'.sessions, 0)]_vars

\* C24 amended: the automatic flush at t = now leaves no session with an
\* expiry before t and keeps every session with expiry >= t; the flush of the
\* Context's teardown is at cutoff 0 and removes every session.
C24_FlushAtNowOrAll ==
    [][/\ (op'.name = "ssl_update_cache" /\ op'.flushed
            /\ cache'.handshakes = cache.handshakes + 1)
            => FlushedAt(BeforeAutoFlush, cache'.sessions, cache.now)
       /\ TeardownFlush =>
            /\ cache'.sessions = {}
            /\ {r[1] : r \in cache'.removed} = cache.sessions]_vars

\* C24 witness: an automatic flush kept the session that expires just then,
\* and the teardown's flush then removed it and an unexpired one.
C24_Witness ==
    /\ op.name = "ssl_update_cache" /\ op.flushed
    /\ cache.now = 2
    /\ cache.pc = "ex_data"
    /\ {"due", "fresh"} \subseteq {r[1] : r \in cache.removed}
    /\ cache.sessions = {}

\* C25: at the final release of a Context the sessions are flushed out of the
\* cache first, the remove-session callbacks running while the ex_data still
\* exists; then the ex_data is freed; only then is the cache's table freed,
\* and the cache is empty at that time.
C25_TeardownOrder ==
    /\ [](/\ cache.ex_data = "freed" =>
                (cache.pc \in {"lh_free", "freed"} /\ cache.sessions = {})
          /\ cache.table = "freed" =>
                (cache.pc = "freed" /\ cache.ex_data = "freed"
                    /\ cache.sessions = {})
          /\ \A r \in cache.removed : r[2] = "live")
    /\ [][/\ TeardownFlush =>
                (cache.ex_data = "live" /\ cache.table # "freed"
                    /\ {r[1] : r \in cache'.removed} = cache.sessions)
          /\ cache'.pc # cache.pc =>
                <<cache.pc, cache'.pc>> \in
                    {<<"live", "flush">>, <<"flush", "ex_data">>,
                     <<"ex_data", "lh_free">>, <<"lh_free", "freed">>}]_vars

\* C25 witness: the table was freed after sessions had been flushed out of it.
C25_Witness ==
    /\ cache.pc = "freed"
    /\ cache.table = "freed" /\ cache.ex_data = "freed"
    /\ cache.removed # {}
    /\ cache.sessions = {}

-----------------------------------------------------------------------------
\* Certificate sets and the capability masks ssl_set_cert_masks computes.

\* the certificate slots of a CERT
SSL_PKEY_RSA_ENC == "RSA_ENC"
SSL_PKEY_RSA_SIGN == "RSA_SIGN"
SSL_PKEY_DSA_SIGN == "DSA_SIGN"
SSL_PKEY_DH_RSA == "DH_RSA"
SSL_PKEY_DH_DSA == "DH_DSA"
SSL_PKEY_ECC == "ECC"
PkeySlots ==
    {SSL_PKEY_RSA_ENC, SSL_PKEY_RSA_SIGN, SSL_PKEY_DSA_SIGN, SSL_PKEY_DH_RSA,
     SSL_PKEY_DH_DSA, SSL_PKEY_ECC}

\* key sizes in bits, on both sides of the export key lengths
KeyBits == {512, 1024}

\* SSL_C_EXPORT_PKEYLENGTH of a cipher: 512 for a 40-bit export cipher
ExportKeyLengths == {512, 1024}

\* the signature algorithms of a certificate; NID_undef when it names none
NID_undef == "undef"
SignatureNids ==
    {NID_undef, "md5WithRSAEncryption", "md4WithRSAEncryption",
     "md2WithRSAEncryption", "sha1WithRSAEncryption", "ecdsa_with_SHA1"}

\* sizes of an elliptic-curve public key, on both sides of the export limit
EccBits == {163, 233}

X509v3_KU_KEY_AGREEMENT == "KEY_AGREEMENT"
X509v3_KU_DIGITAL_SIGNATURE == "DIGITAL_SIGNATURE"

\* an X509 as the functions here read it: whether it has a key-usage
\* extension and its bits, the signature algorithm, the public key's bits
\* (NULL when X509_get_pubkey fails)
X509s(nids, bits) ==
    [EXFLAG_KUSAGE : BOOLEAN,
     ex_kusage : SUBSET {X509v3_KU_KEY_AGREEMENT, X509v3_KU_DIGITAL_SIGNATURE},
     sig_alg : nids, pubkey : bits]

\* an empty slot, and the contents a filled slot can have: x509 and privatekey
\* are pointers or key sizes, cert is what x509 points at
NoPkey == [x509 |-> NULL, privatekey |-> NULL, cert |-> NULL]
PkeysOf(slot) ==
    IF slot = SSL_PKEY_ECC
    THEN {[x509 |-> 1, privatekey |-> x.pubkey, cert |-> x] :
            x \in {y \in X509s({"md5WithRSAEncryption", "ecdsa_with_SHA1"},
                               EccBits) :
                        /\ ~y.EXFLAG_KUSAGE => y.ex_kusage = {}
                        /\ Cardinality(y.ex_kusage) <= 1}}
    ELSE IF slot \in {SSL_PKEY_RSA_SIGN, SSL_PKEY_DSA_SIGN}
    THEN {[x509 |-> 1, privatekey |-> 1024, cert |-> NULL]}
    ELSE {[x509 |-> 1, privatekey |-> b, cert |-> NULL] : b \in KeyBits}

\* a CERT as ssl_cert_new leaves it
NewCert ==
    [rsa_tmp |-> NULL, rsa_tmp_cb |-> NULL, dh_tmp |-> NULL,
     dh_tmp_cb |-> NULL, ecdh_tmp |-> NULL, ecdh_tmp_cb |-> NULL,
     pkeys |-> [slot \in PkeySlots |-> NoPkey],
     mask |-> {}, export_mask |-> {}, valid |-> 0]

\* the flags ssl_set_cert_masks computes from the CERT, kl being the
\* cipher's export key length
CertFlags(c, kl) ==
    LET has(slot) == c.pkeys[slot].x509 # NULL
                        /\ c.pkeys[slot].privatekey # NULL
        fits(slot) == has(slot) /\ c.pkeys[slot].privatekey <= kl
        rsa_tmp == c.rsa_tmp # NULL \/ c.rsa_tmp_cb # NULL
        dh_tmp == c.dh_tmp # NULL \/ c.dh_tmp_cb # NULL
        x == c.pkeys[SSL_PKEY_ECC].cert
        have_ecc_cert == has(SSL_PKEY_ECC)
    IN  [rsa_tmp |-> rsa_tmp,
         rsa_tmp_export |-> c.rsa_tmp_cb # NULL
                                \/ (rsa_tmp /\ c.rsa_tmp <= kl),
         dh_tmp |-> dh_tmp,
         dh_tmp_export |-> c.dh_tmp_cb # NULL \/ (dh_tmp /\ c.dh_tmp <= kl),
         have_ecdh_tmp |-> c.ecdh_tmp # NULL \/ c.ecdh_tmp_cb # NULL,
         rsa_enc |-> has(SSL_PKEY_RSA_ENC),
         rsa_enc_export |-> fits(SSL_PKEY_RSA_ENC),
         rsa_sign |-> has(SSL_PKEY_RSA_SIGN),
         dsa_sign |-> has(SSL_PKEY_DSA_SIGN),
         dh_rsa |-> has(SSL_PKEY_DH_RSA),
         dh_rsa_export |-> fits(SSL_PKEY_DH_RSA),
         dh_dsa |-> has(SSL_PKEY_DH_DSA),
         dh_dsa_export |-> fits(SSL_PKEY_DH_DSA),
         have_ecc_cert |-> have_ecc_cert,
         ecdh_ok |-> IF ~have_ecc_cert THEN FALSE
                     ELSE IF x.EXFLAG_KUSAGE
                     THEN X509v3_KU_KEY_AGREEMENT \in x.ex_kusage ELSE TRUE,
         ecdsa_ok |-> IF ~have_ecc_cert THEN FALSE
                      ELSE IF x.EXFLAG_KUSAGE
                      THEN X509v3_KU_DIGITAL_SIGNATURE \in x.ex_kusage
                      ELSE TRUE,
         ecc_pkey_size |-> IF ~have_ecc_cert THEN 0
                           ELSE IF x.pubkey # NULL THEN x.pubkey ELSE 0,
         signature_nid |-> IF have_ecc_cert THEN x.sig_alg ELSE NID_undef]

RsaSignatures ==
    {"md5WithRSAEncryption", "md4WithRSAEncryption", "md2WithRSAEncryption"}

\* the bits a condition contributes to a mask
Bits(cond, bits) == IF cond THEN bits ELSE {}

\* a variant that grants fixed ECDH whatever the key usage permits
EccMask_any_usage(f, export) ==
    LET sized == IF export THEN f.ecc_pkey_size <= 163 ELSE TRUE
    IN  Bits(f.signature_nid \in RsaSignatures /\ sized, {"kECDH", "aRSA"})
        \cup Bits(f.signature_nid = "ecdsa_with_SHA1" /\ sized,
                  {"kECDH", "aECDSA"})
        \cup Bits(f.ecdsa_ok, {"aECDSA"})

\* the elliptic-curve bits of the two masks
EccMask(f, export) ==
    LET sized == IF export THEN f.ecc_pkey_size <= 163 ELSE TRUE
    IN  Bits(f.ecdh_ok /\ f.signature_nid \in RsaSignatures /\ sized,
             {"kECDH", "aRSA"})
        \cup Bits(f.ecdh_ok /\ f.signature_nid = "ecdsa_with_SHA1" /\ sized,
                  {"kECDH", "aECDSA"})
        \cup Bits(f.ecdsa_ok, {"aECDSA"})

\* c->mask
Mask_else_if(f) ==
    Bits(f.rsa_enc \/ (f.rsa_tmp /\ f.rsa_sign), {"kRSA"})
    \cup Bits(f.dh_tmp, {"kEDH"})
    \cup (IF f.dh_rsa THEN {"kDHr"} ELSE Bits(f.dh_dsa, {"kDHd"}))
    \cup Bits(f.rsa_enc \/ f.rsa_sign, {"aRSA"})
    \cup Bits(f.dsa_sign, {"aDSS"})
    \cup {"aNULL", "kKRB5", "aKRB5"}
    \cup Bits(f.have_ecc_cert, EccMask(f, FALSE))
    \cup Bits(f.have_ecdh_tmp, {"kECDHE"})

Mask(f) ==
    Bits(f.rsa_enc \/ (f.rsa_tmp /\ f.rsa_sign), {"kRSA"})
    \cup Bits(f.dh_tmp, {"kEDH"})
    \cup Bits(f.dh_rsa, {"kDHr"})
    \cup Bits(f.dh_dsa, {"kDHd"})
    \cup Bits(f.rsa_enc \/ f.rsa_sign, {"aRSA"})
    \cup Bits(f.dsa_sign, {"aDSS"})
    \cup {"aNULL", "kKRB5", "aKRB5"}
    \cup Bits(f.have_ecc_cert, EccMask(f, FALSE))
    \cup Bits(f.have_ecdh_tmp, {"kECDHE"})

\* c->export_mask
ExportMask(f) ==
    Bits(f.rsa_enc_export \/ (f.rsa_tmp_export /\ (f.rsa_sign \/ f.rsa_enc)),
         {"kRSA"})
    \cup Bits(f.dh_tmp_export, {"kEDH"})
    \cup Bits(f.dh_rsa_export, {"kDHr"})
    \cup Bits(f.dh_dsa_export, {"kDHd"})
    \cup Bits(f.rsa_enc \/ f.rsa_sign, {"aRSA"})
    \cup Bits(f.dsa_sign, {"aDSS"})
    \cup {"aNULL", "kKRB5", "aKRB5"}
    \cup Bits(f.have_ecc_cert, EccMask(f, TRUE))
    \cup Bits(f.have_ecdh_tmp, {"kECDHE"})

ssl_set_cert_masks(c, kl) ==
    [c EXCEPT !.mask = Mask(CertFlags(c, kl)),
              !.export_mask = ExportMask(CertFlags(c, kl)),
              !.valid = 1]

\* the categories of temporary key material
TmpCategories == {"rsa_tmp", "dh_tmp", "ecdh_tmp"}

\* a temporary key is set where the CERT has neither key nor callback, then
\* the masks are computed for the cipher
SetTmpKey(cat) ==
    /\ \E b \in KeyBits :
        LET c == heap.cert
            c2 == CASE cat = "rsa_tmp" -> [c EXCEPT !.rsa_tmp = b]
                    [] cat = "dh_tmp" -> [c EXCEPT !.dh_tmp = b]
                    [] cat = "ecdh_tmp" -> [c EXCEPT !.ecdh_tmp = 1024]
            had == CASE cat = "rsa_tmp" ->
                            c.rsa_tmp # NULL \/ c.rsa_tmp_cb # NULL
                     [] cat = "dh_tmp" -> c.dh_tmp # NULL \/ c.dh_tmp_cb # NULL
                     [] cat = "ecdh_tmp" ->
                            c.ecdh_tmp # NULL \/ c.ecdh_tmp_cb # NULL
        IN  /\ ~had
            /\ heap' = [heap EXCEPT !.cert = ssl_set_cert_masks(c2, heap.kl)]
    /\ UNCHANGED <<s, errq, rbio, wbio, op, thr, sess, cache>>

\* a temporary-key callback is set where the CERT has neither key nor callback
SetTmpCallback(cat) ==
    /\ LET c == heap.cert
           c2 == CASE cat = "rsa_tmp" -> [c EXCEPT !.rsa_tmp_cb = 1]
                   [] cat = "dh_tmp" -> [c EXCEPT !.dh_tmp_cb = 1]
                   [] cat = "ecdh_tmp" -> [c EXCEPT !.ecdh_tmp_cb = 1]
           had == CASE cat = "rsa_tmp" ->
                            c.rsa_tmp # NULL \/ c.rsa_tmp_cb # NULL
                    [] cat = "dh_tmp" -> c.dh_tmp # NULL \/ c.dh_tmp_cb # NULL
                    [] cat = "ecdh_tmp" ->
                            c.ecdh_tmp # NULL \/ c.ecdh_tmp_cb # NULL
       IN  /\ ~had
           /\ heap' = [heap EXCEPT !.cert = ssl_set_cert_masks(c2, heap.kl)]
    /\ UNCHANGED <<s, errq, rbio, wbio, op, thr, sess, cache>>

\* a certificate and its private key are put in an empty slot
UseCertificate(slot) ==
    /\ heap.cert.pkeys[slot] = NoPkey
    /\ \E k \in PkeysOf(slot) :
        heap' = [heap EXCEPT !.cert =
                    ssl_set_cert_masks([heap.cert EXCEPT !.pkeys[slot] = k],
                                       heap.kl)]
    /\ UNCHANGED <<s, errq, rbio, wbio, op, thr, sess, cache>>

InitCert ==
    /\ s = Unused /\ errq = <<>> /\ rbio = Unused /\ wbio = Unused
    /\ thr = Unused /\ sess = Unused /\ cache = Unused
    /\ op = [name |-> "none"]
    /\ \E kl \in ExportKeyLengths :
        heap = [cert |-> ssl_set_cert_masks(NewCert, kl), kl |-> kl]

NextCert ==
    \/ \E cat \in TmpCategories : SetTmpKey(cat)
    \/ \E cat \in TmpCategories : SetTmpCallback(cat)
    \/ \E slot \in PkeySlots : UseCertificate(slot)

SpecCert == InitCert /\ [][NextCert]_vars

\* C26: for a fixed cipher, when key material (a certificate with its private
\* key, a temporary key or a temporary-key callback) is added in one category
\* where the certificate set had none, the masks ssl_set_cert_masks computes
\* afterwards contain every bit of the masks it computed before, the normal
\* mask and the export mask alike.
C26_MasksMonotone ==
    [][/\ heap.cert.mask \subseteq heap'.cert.mask
       /\ heap.cert.export_mask \subseteq heap'.cert.export_mask
       /\ heap'.cert.valid = 1]_vars

\* C26 witness: key material was added in a category of a set that already
\* had bits of other categories in both masks.
C26_Witness ==
    /\ heap.cert.pkeys[SSL_PKEY_DH_DSA] # NoPkey
    /\ heap.cert.pkeys[SSL_PKEY_DH_RSA] # NoPkey
    /\ heap.cert.rsa_tmp_cb # NULL
    /\ {"kDHd", "kDHr", "aNULL"} \subseteq heap.cert.export_mask
    /\ {"kDHd", "kDHr", "aNULL"} \subseteq heap.cert.mask

-----------------------------------------------------------------------------
\* check_srvr_ecc_cert_and_alg(x, cs)

\* the bits of cs->algorithms the function tests
EccAlgorithms == SUBSET {"kECDH", "aECDSA", "aRSA"}

\* ku_reject(x, usage): the certificate has a key-usage extension and it
\* lacks the usage
ku_reject_any_usage(x, usage) ==
    x.EXFLAG_KUSAGE /\ x.ex_kusage = {}

ku_reject(x, usage) ==
    x.EXFLAG_KUSAGE /\ usage \notin x.ex_kusage

check_srvr_ecc_cert_and_alg(x, cs) ==
    LET alg == cs.algorithms
        signature_nid == x.sig_alg
    IN  IF cs.export /\ x.pubkey = NULL THEN 0
        ELSE IF cs.export /\ x.pubkey > 163 THEN 0
        ELSE IF "kECDH" \in alg
        THEN IF ku_reject(x, X509v3_KU_KEY_AGREEMENT) THEN 0
             ELSE IF "aECDSA" \in alg /\ signature_nid # "ecdsa_with_SHA1"
             THEN 0
             ELSE IF "aRSA" \in alg /\ signature_nid \notin RsaSignatures
             THEN 0
             ELSE 1
        ELSE IF "aECDSA" \in alg
        THEN IF ku_reject(x, X509v3_KU_DIGITAL_SIGNATURE) THEN 0 ELSE 1
        ELSE 1

CheckEccCall ==
    /\ op.name = "none"
    /\ op' = [name |-> "check_srvr_ecc_cert_and_alg",
              ret |-> check_srvr_ecc_cert_and_alg(heap.x, heap.cs)]
    /\ UNCHANGED <<s, errq, rbio, wbio, heap, thr, sess, cache>>

\* an elliptic-curve certificate and a cipher suite
InitEcc ==
    /\ s = Unused /\ errq = <<>> /\ rbio = Unused /\ wbio = Unused
    /\ thr = Unused /\ sess = Unused /\ cache = Unused
    /\ op = [name |-> "none"]
    /\ \E x \in X509s(SignatureNids, EccBits \cup {NULL}),
          alg \in EccAlgorithms, export \in BOOLEAN :
        heap = [x |-> x, cs |-> [algorithms |-> alg, export |-> export]]

NextEcc == CheckEccCall

SpecEcc == InitEcc /\ [][NextEcc]_vars

\* the signature algorithms of the RSA family
RsaFamily == RsaSignatures \cup {"sha1WithRSAEncryption"}

\* the certificate's key usage, when it has the extension, permits the usage
KuPermits(usage) == heap.x.EXFLAG_KUSAGE => usage \in heap.x.ex_kusage

\* C27: check_srvr_ecc_cert_and_alg returns 1 only if: for a fixed-ECDH suite
\* the key usage (when present) permits key agreement and the certificate's
\* signature algorithm is ECDSA when the suite authenticates with ECDSA and of
\* the RSA family when it authenticates with RSA; for an ECDSA suite without
\* fixed ECDH the key usage (when present) permits digital signature; and for
\* an export suite the public key has at most 163 bits.
C27_EccAcceptance ==
    (op.name = "check_srvr_ecc_cert_and_alg" /\ op.ret = 1) =>
        /\ "kECDH" \in heap.cs.algorithms =>
            /\ KuPermits(X509v3_KU_KEY_AGREEMENT)
            /\ "aECDSA" \in heap.cs.algorithms =>
                    heap.x.sig_alg = "ecdsa_with_SHA1"
            /\ "aRSA" \in heap.cs.algorithms => heap.x.sig_alg \in RsaFamily
        /\ ("kECDH" \notin heap.cs.algorithms
                /\ "aECDSA" \in heap.cs.algorithms) =>
            KuPermits(X509v3_KU_DIGITAL_SIGNATURE)
        /\ heap.cs.export => (heap.x.pubkey # NULL /\ heap.x.pubkey <= 163)

\* C27 witness: a certificate with a key-usage extension was accepted for an
\* export fixed-ECDH suite that authenticates with ECDSA.
C27_Witness ==
    /\ op.name = "check_srvr_ecc_cert_and_alg" /\ op.ret = 1
    /\ heap.cs.algorithms = {"kECDH", "aECDSA"}
    /\ heap.cs.export
    /\ heap.x.EXFLAG_KUSAGE
    /\ heap.x.pubkey = 163

-----------------------------------------------------------------------------
\* SSL_dup(s) in detail: the session, the certificate sets, the client-CA
\* names and the Context reference of the source and of the duplicate.

\* the names in a source connection's client-CA list, at most
MaxNames == 2
NameIds == 1..MaxNames

\* the certificate sets: the source's, the one SSL_new gives the duplicate,
\* the one ssl_cert_dup makes of the source's
SourceCert == 1
NewCertOfDup == 2
DupOfSourceCert == 3
CertIds == {SourceCert, NewCertOfDup, DupOfSourceCert}

Methods == {"ctx_method", "other_method"}

NoObject == [references |-> 0, alloc |-> "none"]

NoDup ==
    [alloc |-> "none", session |-> NULL, cert |-> NULL, method |-> "none",
     rbio |-> NULL, wbio |-> NULL, cipher_list |-> NULL,
     cipher_list_by_id |-> NULL, client_CA |-> NULL, names |-> <<>>]

\* how a call of SSL_dup can go: SSL_new fails before or after it took its
\* Context references, one of the later steps fails, or none does
DupOutcomes ==
    {"ok", "new_fails_early", "new_fails_late", "cert", "ex_data", "rbio",
     "wbio", "cipher_list", "cipher_list_by_id", "client_CA", "name"}

\* the outcomes the source connection allows, at being the name whose
\* X509_NAME_dup fails
Possible(H, how, at) ==
    /\ how # "name" => at = 1
    /\ how = "cert" => H.s.session = NULL
    /\ how = "rbio" => H.s.rbio # NULL
    /\ how = "wbio" => (H.s.wbio # NULL /\ H.s.wbio # H.s.rbio)
    /\ how = "cipher_list" => H.s.cipher_list # NULL
    /\ how = "cipher_list_by_id" => H.s.cipher_list_by_id # NULL
    /\ how = "client_CA" => H.s.client_CA # NULL
    /\ how = "name" => (H.s.client_CA # NULL /\ at <= Len(H.s.names))

\* ssl_cert_free(c)
cert_free(H, c) ==
    IF c = NULL THEN H
    ELSE [H EXCEPT !.certs[c].references = @ - 1,
                   !.certs[c].alloc = IF H.certs[c].references - 1 > 0
                                      THEN @ ELSE "freed"]

\* SSL_new(s->ctx) for the duplicate: two Context references, a certificate
\* set duplicated from the Context's, the Context's method
dup_new(H) ==
    [H EXCEPT !.ctx.references = @ + 2,
              !.certs[NewCertOfDup] = [references |-> 1, alloc |-> "live"],
              !.dup = [NoDup EXCEPT !.alloc = "live",
                                    !.cert = NewCertOfDup,
                                    !.method = "ctx_method"]]

\* SSL_copy_session_id(ret, s): SSL_set_session takes a reference on the
\* session; the source's certificate set is shared and the duplicate's own
\* is released
copy_session_id_deep_cert(H) ==
    LET H1 == [H EXCEPT !.session.references = @ + 1,
                        !.dup.session = H.s.session,
                        !.dup.method = H.s.method,
                        !.certs[DupOfSourceCert] =
                            [references |-> 1, alloc |-> "live"],
                        !.dup.cert = DupOfSourceCert]
    IN  cert_free(H1, H.dup.cert)

copy_session_id(H) ==
    LET H1 == [H EXCEPT !.session.references = @ + 1,
                        !.dup.session = H.s.session,
                        !.dup.method = H.s.method,
                        !.certs[H.s.cert].references = @ + 1,
                        !.dup.cert = H.s.cert]
    IN  cert_free(H1, H.dup.cert)

\* the branch of SSL_dup for a source without session: the duplicate's own
\* certificate set is replaced by a duplicate of the source's
dup_cert(H, how) ==
    LET H1 == cert_free(H, H.dup.cert)
    IN  IF how = "cert" THEN [H1 EXCEPT !.dup.cert = NULL]
        ELSE [H1 EXCEPT !.certs[DupOfSourceCert] =
                            [references |-> 1, alloc |-> "live"],
                        !.dup.cert = DupOfSourceCert]

\* the transports and the cipher lists of the duplicate, as far as the call
\* gets
dup_lists(H, how) ==
    LET rb == IF H.s.rbio # NULL /\ how # "rbio" THEN 1 ELSE NULL
        after_rbio == how \notin {"ex_data", "rbio"}
        wb == IF ~after_rbio \/ H.s.wbio = NULL \/ how = "wbio" THEN NULL
                ELSE IF H.s.wbio # H.s.rbio THEN 2 ELSE rb
        after_wbio == after_rbio /\ how # "wbio"
        list == IF after_wbio /\ H.s.cipher_list # NULL
                    /\ how # "cipher_list"
                THEN 1 ELSE NULL
        after_list == after_wbio /\ how # "cipher_list"
        by_id == IF after_list /\ H.s.cipher_list_by_id # NULL
                    /\ how # "cipher_list_by_id"
                 THEN 1 ELSE NULL
    IN  [H EXCEPT !.dup.rbio = IF how = "ex_data" THEN NULL ELSE rb,
                  !.dup.wbio = wb,
                  !.dup.cipher_list = list,
                  !.dup.cipher_list_by_id = by_id]

\* the client-CA list of the duplicate: a copy of the stack that holds the
\* source's names, each replaced in turn by a duplicate; when X509_NAME_dup
\* fails at a name the entry is NULL and the name it held is freed
dup_client_CA(H, how, at) ==
    IF H.s.client_CA = NULL \/ how = "client_CA" THEN H
    ELSE [H EXCEPT !.dup.client_CA = 1,
                   !.dup.names =
            [i \in 1..Len(H.s.names) |->
                IF how # "name" \/ i < at THEN "copy"
                ELSE IF i = at THEN "NULL"
                ELSE "source"],
                   !.names = [n \in NameIds |->
                                IF how = "name" /\ n = at
                                THEN "freed" ELSE @[n]]]

\* SSL_free(ret) at err: the session and certificate references, the names
\* in the duplicate's client-CA list and the two Context references go
dup_free(H) ==
    LET H1 == cert_free(H, H.dup.cert)
        held == IF H.dup.client_CA = NULL THEN {}
                ELSE {i \in 1..Len(H.dup.names) : H.dup.names[i] = "source"}
    IN  [H1 EXCEPT !.session.references =
                        IF H.dup.session # NULL THEN @ - 1 ELSE @,
                   !.names = [n \in NameIds |->
                                IF n \in held THEN "freed" ELSE @[n]],
                   !.ctx.references = @ - 2,
                   !.dup = [NoDup EXCEPT !.alloc = "freed"],
                   !.ret = NULL]

\* SSL_dup(s)
ssl_dup(H, how, at) ==
    IF how = "new_fails_early" THEN [H EXCEPT !.ret = NULL]
    ELSE IF how = "new_fails_late"
    THEN [H EXCEPT !.ret = NULL, !.ctx.references = @ + 1]
    ELSE
        LET H1 == dup_new(H)
            H2 == [H1 EXCEPT !.dup.method = H.s.method]
            H3 == IF H.s.session # NULL THEN copy_session_id(H2)
                  ELSE dup_cert(H2, how)
            H4 == dup_lists(H3, how)
            reached == how \in {"ok", "client_CA", "name"}
            H5 == IF reached THEN dup_client_CA(H4, how, at) ELSE H4
        IN  IF how = "cert" THEN dup_free(H3)
            ELSE IF how = "ok" THEN [H5 EXCEPT !.ret = 1]
            ELSE dup_free(H5)

SSL_dup_call ==
    /\ op.name = "none"
    /\ \E how \in DupOutcomes, at \in NameIds :
        /\ Possible(heap, how, at)
        /\ heap' = ssl_dup(heap, how, at)
        /\ op' = [name |-> "SSL_dup", how |-> how]
    /\ UNCHANGED <<s, errq, rbio, wbio, thr, sess, cache>>

\* SSL_free of the duplicate a successful call returned
SSL_free_dup ==
    /\ op.name = "SSL_dup" /\ heap.ret = 1
    /\ heap' = dup_free(heap)
    /\ op' = [name |-> "SSL_free", how |-> op.how]
    /\ UNCHANGED <<s, errq, rbio, wbio, thr, sess, cache>>

\* a Context with a connection of it, the source, with or without session,
\* transports, cipher lists of its own and client-CA names
InitDup ==
    /\ s = Unused /\ errq = <<>> /\ rbio = Unused /\ wbio = Unused
    /\ thr = Unused /\ sess = Unused /\ cache = Unused
    /\ op = [name |-> "none"]
    /\ \E session \in {NULL, 1}, cached \in {0, 1}, m \in Methods,
          rb \in {NULL, 1}, wb \in {NULL, 1, 2}, cl \in {NULL, 1},
          n \in 0..MaxNames, ca \in BOOLEAN, held \in {0, 1} :
        /\ (session = NULL => cached = 0)
        /\ (~ca => n = 0)
        /\ heap = [ctx |-> [references |-> 2 + held],
                   session |-> [references |->
                                    IF session = NULL THEN 0 ELSE 1 + cached],
                   certs |-> [c \in CertIds |->
                                IF c = SourceCert
                                THEN [references |-> 1, alloc |-> "live"]
                                ELSE NoObject],
                   names |-> [i \in NameIds |->
                                IF i <= n THEN "live" ELSE "none"],
                   s |-> [session |-> session, cert |-> SourceCert,
                          method |-> m, rbio |-> rb, wbio |-> wb,
                          cipher_list |-> cl, cipher_list_by_id |-> cl,
                          client_CA |-> IF ca THEN 1 ELSE NULL,
                          names |-> [i \in 1..n |-> i]],
                   dup |-> NoDup, ret |-> NULL]

NextDup == SSL_dup_call \/ SSL_free_dup

SpecDup == InitDup /\ [][NextDup]_vars

\* a call of SSL_dup that failed at one of the steps after SSL_new
FailedDup ==
    /\ op'.name = "SSL_dup"
    /\ op'.how \notin {"ok", "new_fails_early", "new_fails_late"}

C28_ListedEffects ==
    [][FailedDup =>
        /\ heap'.ret = NULL
        /\ heap'.dup.alloc = "freed"
        /\ heap'.ctx.references = heap.ctx.references]_vars

\* C29: after a successful SSL_dup of a source with a session, the duplicate
\* refers to the source's session and to the source's certificate set, each
\* with one more reference than before and nothing copied, and has the
\* source's method; of a source without session, the duplicate has the
\* source's method and a certificate set of its own, a duplicate of the
\* source's that nothing else refers to, the source's being as before.
C29_DupSharesOrCopies ==
    [][(op'.name = "SSL_dup" /\ op'.how = "ok") =>
        /\ heap'.ret = 1 /\ heap'.dup.alloc = "live"
        /\ heap'.dup.method = heap.s.method
        /\ heap'.s = heap.s
        /\ heap'.certs[NewCertOfDup].alloc = "freed"
        /\ IF heap.s.session # NULL
           THEN /\ heap'.dup.session = heap.s.session
                /\ heap'.session.references = heap.session.references + 1
                /\ heap'.dup.cert = heap.s.cert
                /\ heap'.certs[SourceCert].references =
                        heap.certs[SourceCert].references + 1
                /\ heap'.certs[SourceCert].alloc = "live"
                /\ heap'.certs[DupOfSourceCert].alloc = "none"
           ELSE /\ heap'.dup.session = NULL
                /\ heap'.session = heap.session
                /\ heap'.dup.cert = DupOfSourceCert
                /\ heap'.dup.cert # heap.s.cert
                /\ heap'.certs[DupOfSourceCert] =
                        [references |-> 1, alloc |-> "live"]
                /\ heap'.certs[SourceCert] = heap.certs[SourceCert]]_vars

\* C29 witness: a source with a session that is also in the cache and with a
\* method other than its Context's was duplicated.
C29_Witness ==
    /\ op.name = "SSL_dup" /\ op.how = "ok"
    /\ heap.s.session # NULL /\ heap.dup.session = heap.s.session
    /\ heap.session.references = 3
    /\ heap.s.method = "other_method" /\ heap.dup.method = "other_method"
    /\ heap.dup.cert = SourceCert
    /\ heap.certs[SourceCert].references = 2

-----------------------------------------------------------------------------
\* The method table and the session cache of a Context, from SSL_CTX_new on.

\* the references the model lets one Context have
MaxRefs == 3

\* the method arguments a caller can pass
MethodArgs == Methods \cup {"NULL"}

\* where SSL_CTX_new can fail: on the ex_data index (before the allocation),
\* at the allocation, at ssl_cert_new, lh_new, X509_STORE_new, with no cipher
\* in the list, or at one of the later allocations and digest lookups
CtxNewOutcomes ==
    {"ok", "idx", "malloc", "cert", "lh_new", "cert_store", "no_ciphers",
     "later"}

\* what ssl_create_cipher_list can do: return NULL leaving the lists as they
\* are, or replace them by an empty or a non-empty list
CipherListOutcomes == {"null", "empty", "full"}

NoContext ==
    [alloc |-> "none", references |-> 0, given |-> FALSE, method |-> "NULL",
     sessions |-> "NULL", cipher_list |-> "NULL",
     session_cache_mode |-> {SSL_SESS_CACHE_SERVER}]

\* SSL_CTX_free(ret) on the error path of SSL_CTX_new: the only reference
\* goes, the table is freed if there is one
ctx_new_err(c) ==
    [c EXCEPT !.references = 0, !.alloc = "freed",
              !.sessions = IF @ = "NULL" THEN @ ELSE "freed"]

\* SSL_CTX_new(meth): the Context it leaves and what it returns
ctx_new_unchecked_lh_new(meth, how) ==
    LET base == [NoContext EXCEPT !.alloc = "live", !.references = 1,
                                  !.method = meth]
        tabled == [base EXCEPT !.sessions = "table"]
        listed == [tabled EXCEPT !.cipher_list = "full"]
    IN  IF meth = "NULL" \/ how \in {"idx", "malloc"}
        THEN [ctx |-> NoContext, ret |-> NULL]
        ELSE IF how = "cert"
        THEN [ctx |-> ctx_new_err(base), ret |-> NULL]
        ELSE IF how = "lh_new"
        THEN [ctx |-> [base EXCEPT !.cipher_list = "full", !.given = TRUE],
              ret |-> 1]
        ELSE IF how = "cert_store"
        THEN [ctx |-> ctx_new_err(tabled), ret |-> NULL]
        ELSE IF how = "no_ciphers"
        THEN [ctx |-> ctx_new_err([tabled EXCEPT !.cipher_list = "empty"]),
              ret |-> NULL]
        ELSE IF how = "later"
        THEN [ctx |-> ctx_new_err(listed), ret |-> NULL]
        ELSE [ctx |-> [listed EXCEPT !.given = TRUE], ret |-> 1]

ctx_new(meth, how) ==
    LET base == [NoContext EXCEPT !.alloc = "live", !.references = 1,
                                  !.method = meth]
        tabled == [base EXCEPT !.sessions = "table"]
        listed == [tabled EXCEPT !.cipher_list = "full"]
    IN  IF meth = "NULL" \/ how \in {"idx", "malloc"}
        THEN [ctx |-> NoContext, ret |-> NULL]
        ELSE IF how \in {"cert", "lh_new"}
        THEN [ctx |-> ctx_new_err(base), ret |-> NULL]
        ELSE IF how = "cert_store"
        THEN [ctx |-> ctx_new_err(tabled), ret |-> NULL]
        ELSE IF how = "no_ciphers"
        THEN [ctx |-> ctx_new_err([tabled EXCEPT !.cipher_list = "empty"]),
              ret |-> NULL]
        ELSE IF how = "later"
        THEN [ctx |-> ctx_new_err(listed), ret |-> NULL]
        ELSE [ctx |-> [listed EXCEPT !.given = TRUE], ret |-> 1]

\* ssl_create_cipher_list on the Context's lists
create_cipher_list(c, how) ==
    IF how = "null" THEN c ELSE [c EXCEPT !.cipher_list = how]

\* the caller has a Context to call on
Held == heap.halt = "no" /\ heap.ctx.alloc = "live" /\ heap.ctx.given

SSL_CTX_new_with(meth) ==
    /\ heap.halt = "no"
    /\ heap.ctx.alloc # "live"
    /\ \E how \in CtxNewOutcomes :
        /\ heap' = [heap EXCEPT !.ctx = ctx_new(meth, how).ctx]
        /\ op' = [name |-> "SSL_CTX_new", ret |-> ctx_new(meth, how).ret]
    /\ UNCHANGED <<s, errq, rbio, wbio, thr, sess, cache>>

\* SSL_CTX_set_ssl_version(ctx, meth): the method is stored before the
\* cipher list is made; with a NULL meth ssl_create_cipher_list calls through
\* the NULL table and the program ends there
SSL_CTX_set_ssl_version(meth) ==
    /\ Held
    /\ \E how \in CipherListOutcomes :
        IF meth = "NULL"
        THEN /\ how = "null"
             /\ heap' = [heap EXCEPT !.ctx.method = meth,
                                     !.halt = "crashed"]
             /\ op' = [name |-> "SSL_CTX_set_ssl_version", ret |-> NULL]
        ELSE /\ heap' = [heap EXCEPT !.ctx =
                            create_cipher_list([@ EXCEPT !.method = meth],
                                               how)]
             /\ op' = [name |-> "SSL_CTX_set_ssl_version",
                       ret |-> IF how = "full" THEN 1 ELSE 0]
    /\ UNCHANGED <<s, errq, rbio, wbio, thr, sess, cache>>

SSL_CTX_set_cipher_list ==
    /\ Held
    /\ \E how \in CipherListOutcomes :
        /\ heap' = [heap EXCEPT !.ctx = create_cipher_list(@, how)]
        /\ op' = [name |-> "SSL_CTX_set_cipher_list",
                  ret |-> IF how = "full" THEN 1 ELSE 0]
    /\ UNCHANGED <<s, errq, rbio, wbio, thr, sess, cache>>

\* SSL_CTX_ctrl: a command it handles itself, one that reads the cache, or
\* one it passes to the method
CtxCtrls ==
    {"SSL_CTRL_SET_SESS_CACHE_MODE", "SSL_CTRL_SESS_NUMBER", "other"}

SSL_CTX_ctrl(cmd) ==
    /\ Held
    /\ IF cmd = "SSL_CTRL_SET_SESS_CACHE_MODE"
       THEN \E m \in {{SSL_SESS_CACHE_SERVER}, {}} :
                /\ heap' = [heap EXCEPT !.ctx.session_cache_mode = m]
                /\ op' = [name |-> "SSL_CTX_ctrl", ret |-> 1]
       ELSE IF cmd = "SSL_CTRL_SESS_NUMBER"
       THEN /\ heap' = [heap EXCEPT !.halt =
                            IF heap.ctx.sessions = "table" THEN @
                            ELSE "crashed"]
            /\ op' = [name |-> "SSL_CTX_ctrl", ret |-> 0]
       ELSE /\ heap' = [heap EXCEPT !.halt =
                            IF heap.ctx.method # "NULL" THEN @
                            ELSE "crashed"]
            /\ \E r \in {0, 1} : op' = [name |-> "SSL_CTX_ctrl", ret |-> r]
    /\ UNCHANGED <<s, errq, rbio, wbio, thr, sess, cache>>

\* SSL_new on the Context takes references
CtxRetain ==
    /\ Held
    /\ heap.ctx.references + 2 <= MaxRefs
    /\ heap' = [heap EXCEPT !.ctx.references = @ + 2]
    /\ op' = [name |-> "SSL_new", ret |-> 1]
    /\ UNCHANGED <<s, errq, rbio, wbio, thr, sess, cache>>

\* SSL_CTX_free by a holder of a reference
CtxRelease ==
    /\ Held
    /\ heap' = [heap EXCEPT !.ctx =
                    IF heap.ctx.references - 1 > 0
                    THEN [@ EXCEPT !.references = @ - 1]
                    ELSE ctx_new_err(@)]
    /\ op' = [name |-> "SSL_CTX_free", ret |-> NULL]
    /\ UNCHANGED <<s, errq, rbio, wbio, thr, sess, cache>>

InitCtx ==
    /\ s = Unused /\ errq = <<>> /\ rbio = Unused /\ wbio = Unused
    /\ thr = Unused /\ sess = Unused /\ cache = Unused
    /\ op = [name |-> "none"]
    /\ heap = [ctx |-> NoContext, halt |-> "no"]

NextCtx ==
    \/ \E meth \in MethodArgs : SSL_CTX_new_with(meth)
    \/ \E meth \in MethodArgs : SSL_CTX_set_ssl_version(meth)
    \/ SSL_CTX_set_cipher_list
    \/ \E cmd \in CtxCtrls : SSL_CTX_ctrl(cmd)
    \/ CtxRetain
    \/ CtxRelease

SpecCtx == InitCtx /\ [][NextCtx]_vars

----------------------------------------------------------------------------
(* SSL_clear in full: the fields it resets, the fields it leaves, and its *)
(* two failure paths                                                       *)

\* s->method->version of the two methods
MethodVersion(m) == IF m = "ctx_method" THEN TLS1_VERSION ELSE SSL3_VERSION

\* s->rstate
SSL_ST_READ_HEADER == "READ_HEADER"
SSL_ST_READ_BODY == "READ_BODY"

\* what the method's ssl_new can do when SSL_clear reverts the method
ClearOutcomes == {"ok", "new_fails"}

\* the connection as SSL_new leaves it on a Context whose method is
\* ctx_method: one reference on the Context, the Context's certificate set
\* duplicated, no transport yet
ClearConn(srv) ==
    [method |-> "ctx_method", ctx |-> 1, ctx_method |-> "ctx_method",
     cert |-> 1, rbio |-> NULL, wbio |-> NULL,
     server |-> srv, handshake_func |-> NoFunc,
     session |-> NULL, session_references |-> 0, cached |-> FALSE,
     error |-> 0, hit |-> 0, shutdown |-> {}, new_session |-> 0,
     type |-> 0,
     state |-> SSL_ST_BEFORE \cup (IF srv # 0 THEN SSL_ST_ACCEPT ELSE SSL_ST_CONNECT),
     version |-> TLS1_VERSION, client_version |-> TLS1_VERSION,
     rwstate |-> SSL_NOTHING, rstate |-> SSL_ST_READ_HEADER,
     init_buf |-> NULL,
     enc_read_ctx |-> FALSE, enc_write_ctx |-> FALSE,
     expand |-> FALSE, compress |-> FALSE,
     first_packet |-> 0, in_handshake |-> 0]

\* ssl_clear_bad_session: a session of a connection that was not shut down
\* properly and is past its handshake is taken out of the cache
ssl_clear_bad_session(a) ==
    /\ a.session # NULL
    /\ SSL_SENT_SHUTDOWN \notin a.shutdown
    /\ ~(SSL_in_init(a) \/ SSL_in_before(a))

\* the method's ssl_new and ssl_clear: the version-specific state is set up
\* for the method, which writes the method's protocol version
method_setup(a) == [a EXCEPT !.version = MethodVersion(a.method)]

\* a variant that leaves the blocked-I/O state as the last call left it
clear_keeps_rwstate(a, how) ==
    IF a.method = "NULL"
    THEN [c |-> a, ret |-> 0, err |-> "NO_METHOD_SPECIFIED"]
    ELSE
    LET b == IF ssl_clear_bad_session(a)
             THEN [a EXCEPT !.session = NULL,
                            !.session_references = @ - 1,
                            !.cached = FALSE]
             ELSE a
        c == [b EXCEPT !.error = 0, !.hit = 0, !.shutdown = {}]
    IN  IF c.new_session # 0
        THEN [c |-> c, ret |-> 0, err |-> "INTERNAL_ERROR"]
        ELSE
        LET d == ssl_clear_cipher_ctx(
                   [c EXCEPT !.type = 0,
                             !.state = SSL_ST_BEFORE \cup
                                 (IF c.server # 0 THEN SSL_ST_ACCEPT
                                                  ELSE SSL_ST_CONNECT),
                             !.version = MethodVersion(c.method),
                             !.client_version = MethodVersion(c.method),
                             !.rstate = SSL_ST_READ_HEADER,
                             !.init_buf = NULL,
                             !.first_packet = 0])
        IN  IF d.in_handshake = 0 /\ d.session = NULL /\ d.method # d.ctx_method
            THEN LET e == [d EXCEPT !.method = d.ctx_method]
                 IN  IF how = "new_fails"
                     THEN [c |-> e, ret |-> 0, err |-> "none"]
                     ELSE [c |-> method_setup(e), ret |-> 1, err |-> "none"]
            ELSE [c |-> method_setup(d), ret |-> 1, err |-> "none"]

\* SSL_clear(s): the connection it leaves, what it returns and the error it
\* queues
clear(a, how) ==
    IF a.method = "NULL"
    THEN [c |-> a, ret |-> 0, err |-> "NO_METHOD_SPECIFIED"]
    ELSE
    LET b == IF ssl_clear_bad_session(a)
             THEN [a EXCEPT !.session = NULL,
                            !.session_references = @ - 1,
                            !.cached = FALSE]
             ELSE a
        c == [b EXCEPT !.error = 0, !.hit = 0, !.shutdown = {}]
    IN  IF c.new_session # 0
        THEN [c |-> c, ret |-> 0, err |-> "INTERNAL_ERROR"]
        ELSE
        LET d == ssl_clear_cipher_ctx(
                   [c EXCEPT !.type = 0,
                             !.state = SSL_ST_BEFORE \cup
                                 (IF c.server # 0 THEN SSL_ST_ACCEPT
                                                  ELSE SSL_ST_CONNECT),
                             !.version = MethodVersion(c.method),
                             !.client_version = MethodVersion(c.method),
                             !.rwstate = SSL_NOTHING,
                             !.rstate = SSL_ST_READ_HEADER,
                             !.init_buf = NULL,
                             !.first_packet = 0])
        IN  IF d.in_handshake = 0 /\ d.session = NULL /\ d.method # d.ctx_method
            THEN LET e == [d EXCEPT !.method = d.ctx_method]
                 IN  IF how = "new_fails"
                     THEN [c |-> e, ret |-> 0, err |-> "none"]
                     ELSE [c |-> method_setup(e), ret |-> 1, err |-> "none"]
            ELSE [c |-> method_setup(d), ret |-> 1, err |-> "none"]

\* a call of SSL_clear; op keeps the connection as it was before the call
SSL_clear_call ==
    /\ \E how \in ClearOutcomes :
         LET r == clear(heap.c, how) IN
           /\ (how = "new_fails" => r.ret = 0 /\ r.err = "none")
           /\ heap' = [heap EXCEPT !.c = r.c]
           /\ op' = [name |-> "SSL_clear", ret |-> r.ret, err |-> r.err,
                     before |-> heap.c]
    /\ UNCHANGED <<s, errq, rbio, wbio, thr, sess, cache>>

\* SSL_renegotiate: the pending flag is set (the method's hook is left out)
SSL_renegotiate_call ==
    /\ heap.c.new_session = 0
    /\ heap' = [heap EXCEPT !.c.new_session = 1]
    /\ op' = [name |-> "SSL_renegotiate", ret |-> 1, err |-> "none"]
    /\ UNCHANGED <<s, errq, rbio, wbio, thr, sess, cache>>

\* the role setters and SSL_set_bio, which give the connection the entry
\* point and the transports SSL_clear has to keep
SetRole(srv) ==
    /\ heap' = [heap EXCEPT !.c = ssl_clear_cipher_ctx(
                   [@ EXCEPT !.server = srv, !.shutdown = {},
                             !.state = SSL_ST_BEFORE \cup
                                 (IF srv # 0 THEN SSL_ST_ACCEPT ELSE SSL_ST_CONNECT),
                             !.handshake_func =
                                 IF srv # 0 THEN "ssl_accept" ELSE "ssl_connect",
                             !.rbio = 1, !.wbio = 1])]
    /\ op' = [name |-> "SSL_set_state", ret |-> 1, err |-> "none"]
    /\ UNCHANGED <<s, errq, rbio, wbio, thr, sess, cache>>

\* what a handshake and the I/O after it leave in the connection: a session
\* (new or resumed), the negotiated method, cipher contexts, a blocked-I/O
\* state, an error mark, shutdown flags; the pending flag goes.  The
\* connection may still be inside the handshake routine (a callback of it
\* is running) when the next call comes.
Traffic ==
    /\ heap.c.handshake_func # NoFunc
    /\ \E m \in Methods, hit \in {0, 1}, err \in {0, 1},
          sd \in {{}, {SSL_SENT_SHUTDOWN}, {SSL_RECEIVED_SHUTDOWN}},
          rw \in {SSL_NOTHING, SSL_READING},
          st \in {SSL_ST_OK, SSL_ST_RENEGOTIATE}, ih \in {0, 1} :
         /\ heap' = [heap EXCEPT !.c =
                [@ EXCEPT !.method = m, !.version = MethodVersion(m),
                          !.session = 1, !.session_references = 1,
                          !.cached = TRUE,
                          !.hit = hit, !.error = err, !.shutdown = sd,
                          !.rwstate = rw, !.state = st, !.in_handshake = ih,
                          !.new_session = IF st = SSL_ST_OK THEN 0 ELSE @,
                          !.type = 1, !.rstate = SSL_ST_READ_BODY,
                          !.init_buf = 1, !.first_packet = 1,
                          !.enc_read_ctx = TRUE, !.enc_write_ctx = TRUE,
                          !.expand = TRUE, !.compress = TRUE]]
         /\ op' = [name |-> "traffic", ret |-> 1, err |-> "none"]
    /\ UNCHANGED <<s, errq, rbio, wbio, thr, sess, cache>>

InitClear ==
    /\ s = Unused /\ errq = <<>> /\ rbio = Unused /\ wbio = Unused
    /\ thr = Unused /\ sess = Unused /\ cache = Unused
    /\ \E srv \in {0, 1} :
         /\ heap = [c |-> ClearConn(srv)]
         /\ op = [name |-> "SSL_new", ret |-> 1, err |-> "none"]

NextClear ==
    \/ SSL_clear_call
    \/ SSL_renegotiate_call
    \/ \E srv \in {0, 1} : SetRole(srv)
    \/ Traffic

SpecClear == InitClear /\ [][NextClear]_vars

\* the fields of a connection SSL_clear is to keep
Kept(a) ==
    <<a.ctx, a.cert, a.rbio, a.wbio, a.server, a.handshake_func>>

C39_FailedClearKeepsAll ==
    [][(op'.name = "SSL_clear" /\ op'.ret = 0 /\ heap.c.new_session # 0) =>
         LET a == heap'.c
             b == heap.c
         IN  /\ a.shutdown = b.shutdown /\ a.hit = b.hit /\ a.error = b.error
             /\ a.session = b.session /\ a.state = b.state
             /\ a.version = b.version /\ a.method = b.method]_vars

----------------------------------------------------------------------------
(* The hash and the compare callback on the pairs the cache puts to them: *)
(* a resident session and the probe SSL_has_matching_session_id builds     *)

\* a resident session and a probe of its version and its id length, whose
\* bytes after the id are what the stack held
InitProbe ==
    /\ s = Unused /\ errq = <<>> /\ rbio = Unused /\ wbio = Unused
    /\ heap = Unused /\ thr = Unused /\ cache = Unused
    /\ op = [name |-> "none"]
    /\ \E ver \in Versions, n \in IdLengths :
         /\ ValidLength(ver, n)
         /\ \E v \in [VariedPositions -> Bytes], id \in Ids(n),
               junk \in StackBytes(n) :
              sess = [a |-> Session(ver, n, v, 0),
                      b |-> Probe(ver, id, n, junk)]

SpecProbe == InitProbe /\ [][NextCmp]_vars

\* C32: two sessions that SSL_SESSION_cmp judges equal have the same
\* SSL_SESSION_hash, also when the id is shorter than four bytes and the
\* buffer bytes after it differ.
C32_HashConsistent ==
    (op.name = "SSL_SESSION_cmp" /\ op.ret = 0) => op.hash_a = op.hash_b

----------------------------------------------------------------------------
(* SSL_get_error on a zero result *)

\* C33: for result == 0 SSL_get_error returns ZERO_RETURN, SYSCALL or SSL and
\* never a WANT_* code, whatever the blocked-I/O state and the transports'
\* retry flags.
C33_ZeroNeverWants ==
    (op.name = "SSL_get_error" /\ op.arg = 0) =>
        op.ret \in {SSL_ERROR_ZERO_RETURN, SSL_ERROR_SYSCALL, SSL_ERROR_SSL}

\* C33 witness: a zero result with an empty error queue on a connection
\* blocked on a read whose read transport asks for a retry was classified
\* SYSCALL.
C33_Witness ==
    /\ op.name = "SSL_get_error" /\ op.arg = 0
    /\ errq = <<>>
    /\ s.rwstate = SSL_READING /\ BIO_should_read(rbio)
    /\ op.ret = SSL_ERROR_SYSCALL

----------------------------------------------------------------------------
(* SSL_new call by call: what each call, failing or not, does to the *)
(* reference count of its Context                                      *)

\* SSL_new(ctx) by a caller holding the Context c; op keeps the step at which
\* the call ended and the count the Context had before it
SSL_new_call(k, c) ==
    /\ Running
    /\ heap.conns[k].alloc = "none"
    /\ \A j \in ConnIds : j < k => heap.conns[j].alloc # "none"
    /\ LiveCtx(c)
    /\ \E how \in NewOutcomes :
        /\ how = "fail_late" => Leaked(MaxCtx) < MaxLeak
        /\ heap' = ssl_new(heap, k, c, how)
        /\ op' = [name |-> "SSL_new", how |-> how, ctx |-> c,
                  ret |-> IF how = "ok" THEN k ELSE NULL,
                  references |-> heap.ctxs[c].references]
    /\ UNCHANGED <<s, errq, rbio, wbio, thr, sess, cache>>

\* SSL_free(s) by the owner of the Connection
SSL_free_call(k) ==
    /\ Running
    /\ heap.conns[k].owned > 0
    /\ heap' = ssl_free([heap EXCEPT !.conns[k].owned = @ - 1], k)
    /\ op' = [name |-> "SSL_free", how |-> "ok", ctx |-> heap.conns[k].ctx,
              ret |-> NULL, references |-> heap.ctxs[heap.conns[k].ctx].references]
    /\ UNCHANGED <<s, errq, rbio, wbio, thr, sess, cache>>

\* SSL_CTX_free(ctx) by a holder of the Context
SSL_CTX_free_call(c) ==
    /\ Running
    /\ heap.ctxs[c].owned > 0
    /\ heap' = ctx_free([heap EXCEPT !.ctxs[c].owned = @ - 1], c)
    /\ op' = [name |-> "SSL_CTX_free", how |-> "ok", ctx |-> c,
              ret |-> NULL, references |-> heap.ctxs[c].references]
    /\ UNCHANGED <<s, errq, rbio, wbio, thr, sess, cache>>

NextNew ==
    \/ \E c \in CtxIds : SSL_CTX_new(c)
    \/ \E k \in ConnIds, c \in CtxIds : SSL_new_call(k, c)
    \/ \E k \in ConnIds : SSL_free_call(k)
    \/ \E c \in CtxIds : SSL_CTX_free_call(c)

SpecNew == InitRef /\ [][NextNew]_vars

\* C34: a failed SSL_new returns NULL and leaves the reference count of the
\* Context as it was before the call.
C34_FailedNewKeepsCount ==
    (op.name = "SSL_new" /\ op.ret = NULL) =>
        heap.ctxs[op.ctx].references = op.references

----------------------------------------------------------------------------
(* The transports of a connection: SSL_set_bio and the descriptor setters *)

\* bound: how many transport handles (BIOs) there are
MaxBio == 3
BioIds == 1..MaxBio

\* the connection's transports: rbio and wbio are handles or NULL, bbio says
\* that the handshake's output buffer is pushed in front of wbio, released
\* counts the BIO_free_all calls on each handle, made holds the handles
\* BIO_new has handed out or the application has passed in
NoTransports ==
    [rbio |-> NULL, wbio |-> NULL, bbio |-> FALSE,
     released |-> [h \in BioIds |-> 0], made |-> {}]

\* BIO_free_all(b)
BIO_free_all(H, b) == [H EXCEPT !.released[b] = @ + 1]

\* SSL_set_bio(s, rbio, wbio): the output buffer, if it is still in front of
\* wbio, is taken off; the old read transport is released unless it is the
\* new one; the old write transport is released unless it is the new one or
\* is the old read transport
set_bio(H, rb, wb) ==
    LET H1 == [H EXCEPT !.bbio = FALSE]
        H2 == IF H1.rbio # NULL /\ H1.rbio # rb
              THEN BIO_free_all(H1, H1.rbio) ELSE H1
        H3 == IF H1.wbio # NULL /\ H1.wbio # wb /\ H1.rbio # H1.wbio
              THEN BIO_free_all(H2, H1.wbio) ELSE H2
    IN  [H3 EXCEPT !.rbio = rb, !.wbio = wb, !.made = @ \cup ({rb, wb} \ {NULL})]

\* no handle the connection is bound to has been released: calls on a
\* connection with a released transport are not followed
Sound == \A h \in {heap.rbio, heap.wbio} \ {NULL} : heap.released[h] = 0

\* the handles a caller can pass: NULL or a handle that is not released
Passable == {NULL} \cup {h \in BioIds : heap.released[h] = 0}

\* BIO_new: a handle nobody has yet, or NULL when there is none (the
\* allocation fails)
BIO_new == IF BioIds \ heap.made = {} THEN NULL
           ELSE CHOOSE h \in BioIds \ heap.made : \A g \in BioIds \ heap.made : h <= g

BioCall(name, H, ret) ==
    /\ heap' = H
    /\ op' = [name |-> name, ret |-> ret,
              rbio |-> heap.rbio, wbio |-> heap.wbio]
    /\ UNCHANGED <<s, errq, rbio, wbio, thr, sess, cache>>

SSL_set_bio_call(rb, wb) ==
    /\ Sound
    /\ rb \in Passable /\ wb \in Passable
    /\ BioCall("SSL_set_bio", set_bio(heap, rb, wb), 1)

\* SSL_set_fd(s, fd): one new socket transport for both directions
SSL_set_fd ==
    /\ Sound
    /\ \E fails \in BOOLEAN :
         LET bio == IF fails THEN NULL ELSE BIO_new
         IN  IF bio = NULL
             THEN BioCall("SSL_set_fd", heap, 0)
             ELSE BioCall("SSL_set_fd", set_bio(heap, bio, bio), 1)

\* SSL_set_wfd(s, fd): the read transport is taken for writing too when it is
\* a socket on the same descriptor, else a new socket transport is made
SSL_set_wfd ==
    /\ Sound
    /\ \E same_fd, fails \in BOOLEAN :
         IF heap.rbio = NULL \/ ~same_fd
         THEN LET bio == IF fails THEN NULL ELSE BIO_new
              IN  IF bio = NULL
                  THEN BioCall("SSL_set_wfd", heap, 0)
                  ELSE BioCall("SSL_set_wfd", set_bio(heap, heap.rbio, bio), 1)
         ELSE BioCall("SSL_set_wfd", set_bio(heap, heap.rbio, heap.rbio), 1)

\* SSL_set_rfd(s, fd): the same with the directions exchanged
SSL_set_rfd ==
    /\ Sound
    /\ \E same_fd, fails \in BOOLEAN :
         IF heap.wbio = NULL \/ ~same_fd
         THEN LET bio == IF fails THEN NULL ELSE BIO_new
              IN  IF bio = NULL
                  THEN BioCall("SSL_set_rfd", heap, 0)
                  ELSE BioCall("SSL_set_rfd", set_bio(heap, bio, heap.wbio), 1)
         ELSE BioCall("SSL_set_rfd", set_bio(heap, heap.wbio, heap.wbio), 1)

\* the handshake pushes its output buffer in front of the write transport
PushBuffer ==
    /\ Sound
    /\ heap.wbio # NULL /\ ~heap.bbio
    /\ BioCall("ssl_init_wbio_buffer", [heap EXCEPT !.bbio = TRUE], 1)

InitBio ==
    /\ s = Unused /\ errq = <<>> /\ rbio = Unused /\ wbio = Unused
    /\ thr = Unused /\ sess = Unused /\ cache = Unused
    /\ heap = NoTransports
    /\ op = [name |-> "SSL_new", ret |-> 1, rbio |-> NULL, wbio |-> NULL]

NextBio ==
    \/ \E rb, wb \in {NULL} \cup BioIds : SSL_set_bio_call(rb, wb)
    \/ SSL_set_fd
    \/ SSL_set_wfd
    \/ SSL_set_rfd
    \/ PushBuffer

SpecBio == InitBio /\ [][NextBio]_vars

\* C35: after SSL_set_bio no handle bound as the new rbio or wbio has been
\* released, and each handle that was bound before the call and is bound no
\* longer has been released exactly once.
C35_SetBioReleases ==
    op.name = "SSL_set_bio" =>
        \A h \in BioIds :
            /\ h \in {heap.rbio, heap.wbio} => heap.released[h] = 0
            /\ h \in {op.rbio, op.wbio} \ {heap.rbio, heap.wbio} =>
                    heap.released[h] = 1

----------------------------------------------------------------------------
(* ssl_bytes_to_cipher_list: the cipher list of a ClientHello *)

\* bound: how many cipher codes a received list holds
MaxCiphers == 3

\* the codes of a received list: two ciphers the method knows, a code it does
\* not know, and the two signalling values
SSL3_CK_SCSV == "SCSV"
SSL3_CK_FALLBACK_SCSV == "FALLBACK_SCSV"
KnownCiphers == {"AES", "RC4"}
CipherCodes == KnownCiphers \cup {"unknown", SSL3_CK_SCSV, SSL3_CK_FALLBACK_SCSV}

SSL_AD_HANDSHAKE_FAILURE == "handshake_failure"
SSL_AD_INAPPROPRIATE_FALLBACK == "inappropriate_fallback"

\* s->s3 is set on an SSLv3/TLS connection and NULL on an SSLv2 one
HasS3(c) == c.version # SSL2_VERSION

\* ssl_get_cipher_by_char: the method's cipher of that code, or NULL
ssl_get_cipher_by_char(code) == IF code \in KnownCiphers THEN code ELSE "NULL"

\* the state of the loop: p is the position of the code the pointer is at,
\* sk the stack built so far, flag is s3->send_connection_binding
ParseFailure(st, err, alert) ==
    [ok |-> FALSE, sk |-> <<>>, flag |-> st.flag, err |-> err, alert |-> alert]

\* the loop of lines 1367-1412, from its i-th round on: the pointer p is
\* advanced on a renegotiation SCSV and on a looked-up code, and not on a
\* fallback SCSV
RECURSIVE parse_loop(_, _, _, _)
parse_loop(c, list, i, st) ==
    IF i > Len(list)
    THEN [ok |-> TRUE, sk |-> st.sk, flag |-> st.flag, err |-> "none",
          alert |-> NoAlert]
    ELSE LET code == list[st.p] IN
         IF HasS3(c) /\ code = SSL3_CK_SCSV
         THEN IF c.new_session # 0
              THEN ParseFailure(st, "SCSV_RECEIVED_WHEN_RENEGOTIATING",
                                SSL_AD_HANDSHAKE_FAILURE)
              ELSE parse_loop(c, list, i + 1, [st EXCEPT !.flag = 1, !.p = @ + 1])
         ELSE IF code = SSL3_CK_FALLBACK_SCSV
         THEN IF ~c.proto_ok
              THEN ParseFailure(st, "INAPPROPRIATE_FALLBACK",
                                IF HasS3(c) THEN SSL_AD_INAPPROPRIATE_FALLBACK
                                            ELSE NoAlert)
              ELSE parse_loop(c, list, i + 1, st)
         ELSE IF ssl_get_cipher_by_char(code) # "NULL"
         THEN IF c.push_fails = Len(st.sk) + 1
              THEN ParseFailure(st, "MALLOC_FAILURE", NoAlert)
              ELSE parse_loop(c, list, i + 1,
                        [st EXCEPT !.p = @ + 1, !.sk = Append(@, code)])
         ELSE parse_loop(c, list, i + 1, [st EXCEPT !.p = @ + 1])

\* ssl_bytes_to_cipher_list(s, p, num, skp) on the list of whole codes
\* followed, when partial, by a piece of a code
ssl_bytes_to_cipher_list(c, list, partial) ==
    LET flag == IF HasS3(c) THEN 0 ELSE c.flag
        st == [p |-> 1, sk |-> <<>>, flag |-> flag]
    IN  IF partial
        THEN ParseFailure(st, "ERROR_IN_RECEIVED_CIPHER_LIST", NoAlert)
        ELSE parse_loop(c, list, 1, st)

\* the server reads the cipher list of a ClientHello
ParseCall ==
    /\ op.name = "none"
    /\ LET r == ssl_bytes_to_cipher_list(heap.c, heap.list, heap.partial)
       IN  op' = [name |-> "ssl_bytes_to_cipher_list", ok |-> r.ok,
                  sk |-> r.sk, flag |-> r.flag, err |-> r.err,
                  alert |-> r.alert]
    /\ UNCHANGED <<s, errq, rbio, wbio, heap, thr, sess, cache>>

\* the connections and the lists: new_session is the pending renegotiation,
\* flag what an earlier ClientHello left in send_connection_binding,
\* proto_ok the method's answer to SSL_CTRL_CHECK_PROTO_VERSION, push_fails
\* the push at which the stack cannot grow (0: none)
InitParse ==
    /\ s = Unused /\ errq = <<>> /\ rbio = Unused /\ wbio = Unused
    /\ thr = Unused /\ sess = Unused /\ cache = Unused
    /\ op = [name |-> "none"]
    /\ \E ver \in {SSL2_VERSION, TLS1_VERSION}, ns \in {0, 1}, f \in {0, 1},
          ok \in BOOLEAN, pf \in {0, 2}, partial \in BOOLEAN,
          list \in BoundedSeq(CipherCodes, MaxCiphers) :
         heap = [c |-> [version |-> ver, new_session |-> ns, flag |-> f,
                        proto_ok |-> ok, push_fails |-> pf],
                 list |-> list, partial |-> partial]

NextParse == ParseCall

SpecParse == InitParse /\ [][NextParse]_vars

\* the recognized ciphers of a list, in received order
Recognized(list) == SelectSeq(list, LAMBDA x : x \in KnownCiphers)

\* C36: a successful ssl_bytes_to_cipher_list returns the recognized ciphers
\* of the received list in received order, leaving out only the signalling
\* values and the unknown codes, wherever the signalling values stand.
C36_RecognizedInOrder ==
    (op.name = "ssl_bytes_to_cipher_list" /\ op.ok) =>
        op.sk = Recognized(heap.list)

\* the list holds the renegotiation SCSV
HasSCSV(list) == \E k \in 1..Len(list) : list[k] = SSL3_CK_SCSV

\* C37: on an SSLv3/TLS connection ssl_bytes_to_cipher_list starts by
\* resetting send_connection_binding to 0; a renegotiation SCSV received
\* while a renegotiation is pending makes the parse fail, with a fatal
\* handshake_failure alert when it is what stops the parse; and after a
\* successful parse the flag is 1 if and only if the list held the
\* renegotiation SCSV.
C37_RenegotiationFlag ==
    (op.name = "ssl_bytes_to_cipher_list" /\ HasS3(heap.c)) =>
        /\ heap.partial => op.flag = 0
        /\ (HasSCSV(heap.list) /\ heap.c.new_session # 0) => ~op.ok
        /\ op.err = "SCSV_RECEIVED_WHEN_RENEGOTIATING" =>
                op.alert = SSL_AD_HANDSHAKE_FAILURE
        /\ op.ok => (op.flag = 1 <=> HasSCSV(heap.list))

----------------------------------------------------------------------------
(* The capability mask against the per-suite check of the elliptic-curve *)
(* certificate                                                            *)

\* the authentications of the suites with fixed ECDH key exchange
EcdhAuths == {"aECDSA", "aRSA"}

\* the non-export suite with fixed ECDH and the authentication auth
EcdhSuite(auth) == [algorithms |-> {"kECDH", auth}, export |-> FALSE]

\* the masks were computed and hold every bit the suite requires
MaskHas(auth) ==
    heap.cert.valid = 1 /\ {"kECDH", auth} \subseteq heap.cert.mask

\* check_srvr_ecc_cert_and_alg accepts the set's elliptic-curve certificate
\* for the suite
EccCertAccepted(auth) ==
    check_srvr_ecc_cert_and_alg(heap.cert.pkeys[SSL_PKEY_ECC].cert,
                                EcdhSuite(auth)) = 1

\* the certificate's signature algorithm is the one the check expects for
\* the authentication
SignedFor(auth) ==
    LET nid == heap.cert.pkeys[SSL_PKEY_ECC].cert.sig_alg
    IN  IF auth = "aECDSA" THEN nid = "ecdsa_with_SHA1"
        ELSE nid \in RsaSignatures

\* C38: when the mask holds kECDH and the authentication bit of a non-export
\* fixed-ECDH suite, check_srvr_ecc_cert_and_alg accepts the set's
\* elliptic-curve certificate for that suite.
C38_MaskImpliesCheck ==
    \A auth \in EcdhAuths : MaskHas(auth) => EccCertAccepted(auth)

\* C38 as amended: the same, for the suite whose authentication is the one
\* the certificate's signature algorithm stands for.
C38_MaskImpliesCheckWhenSigned ==
    \A auth \in EcdhAuths :
        (MaskHas(auth) /\ SignedFor(auth)) => EccCertAccepted(auth)

\* C38 witness: a set with an RSA key and an RSA-signed elliptic-curve
\* certificate whose key usage permits key agreement only has kECDH and aRSA
\* in its mask, and the certificate is accepted for the ECDH-RSA suite.
C38_Witness ==
    /\ MaskHas("aRSA") /\ SignedFor("aRSA") /\ EccCertAccepted("aRSA")
    /\ heap.cert.pkeys[SSL_PKEY_ECC].cert.EXFLAG_KUSAGE
    /\ heap.cert.pkeys[SSL_PKEY_RSA_ENC] # NoPkey
    /\ "aECDSA" \notin heap.cert.mask

----------------------------------------------------------------------------
(* The source connection of a failed SSL_dup *)

\* C40: when SSL_dup fails, at SSL_new or at any later step, nothing the
\* source connection owns is released or changed: its session, its
\* certificate set, its transports and cipher lists, its client-CA list and
\* the names in it.
C40_FailedDupKeepsSource ==
    [][(op'.name = "SSL_dup" /\ op'.how # "ok") =>
        /\ heap'.s = heap.s
        /\ heap'.session = heap.session
        /\ heap'.certs[SourceCert] = heap.certs[SourceCert]
        /\ heap'.names = heap.names]_vars

====
